---- MODULE Spec2Model ----
(***************************************************************************)
(* Password strength checker (src/password_checker): PasswordValidator and *)
(* PasswordStrengthChecker.                                                *)
(*                                                                         *)
(* A password is a sequence of characters.  An ASCII character is the      *)
(* one-character string holding it; "LF" is the line feed and "U+xxxx" is  *)
(* the code point xxxx.                                                    *)
(*                                                                         *)
(* Scores are Python floats in the source.  They are kept here as exact    *)
(* decimals counted in hundredths (0.3 is 30, 1.0 is 100); the weights are *)
(* counted in tenths, so a weighted sum is counted in thousandths.  Every  *)
(* weighted sum the code can form is a whole number of hundredths, at      *)
(* least 0.005 away from a rounding tie, so the few units in the last      *)
(* place by which the IEEE-754 evaluation differs from the exact decimal   *)
(* never change the result of round(x, 2) or of a comparison with 0.4 or   *)
(* 0.7.                                                                    *)
(***************************************************************************)
EXTENDS Integers, Sequences, FiniteSets, TLC

VARIABLES
    password,   \* the string the caller passes to the components
    validator,  \* the PasswordValidator object: its min_length
    checker,    \* the PasswordStrengthChecker object: its three weights
    ret,        \* the last call: the operation, its argument, the value returned
    cli,        \* PasswordCheckerApp.run_interactive_mode: where the loop stands,
                \* what it read last and which passwords it had analysed
    fs,         \* the directory a FileOrganizer works on
    organizer,  \* the FileOrganizer object: organization_stats and errors
    products,   \* the products table of the inventory database
    app         \* the CalculatorApp object: running, and where its loop stands

vars == <<password, validator, checker, ret, cli, fs, organizer, products, app>>

\* The state of the programs other than the password checker's two components
others == << cli, fs, organizer, products, app >>

(***************************************************************************)
(* Bounds of the inputs.                                                   *)
(***************************************************************************)
MaxTyped == 1
MaxPad == 17
MaxChars == 3

(***************************************************************************)
(* Characters.                                                             *)
(***************************************************************************)
UpperSeq ==
    << "A", "B", "C", "D", "E", "F", "G", "H", "I", "J", "K", "L", "M",
       "N", "O", "P", "Q", "R", "S", "T", "U", "V", "W", "X", "Y", "Z" >>

LowerSeq ==
    << "a", "b", "c", "d", "e", "f", "g", "h", "i", "j", "k", "l", "m",
       "n", "o", "p", "q", "r", "s", "t", "u", "v", "w", "x", "y", "z" >>

DigitSeq == << "0", "1", "2", "3", "4", "5", "6", "7", "8", "9" >>

Range(s) == { s[i] : i \in 1..Len(s) }

\* re.compile(r'[A-Z]'): the characters the class matches
uppercase_pattern == Range(UpperSeq)

\* re.compile(r'[a-z]')
lowercase_pattern == Range(LowerSeq)

\* re.compile(r'\d') on a str: every Unicode decimal digit (category Nd).
\* The ten ASCII digits and, of the 650 others, ARABIC-INDIC DIGIT ONE..THREE
\* and FULLWIDTH DIGIT ONE.
digit_pattern == Range(DigitSeq) \cup { "U+0661", "U+0662", "U+0663", "U+FF11" }

\* re.compile(r'[!@#$%^&*()_+\-=\[\]{};:"\\|,.<>\/?]')
special_char_pattern ==
    { "!", "@", "#", "$", "%", "^", "&", "*", "(", ")", "_", "+", "-", "=",
      "[", "]", "{", "}", ";", ":", "\"", "\\", "|", ",", ".", "<", ">", "/",
      "?" }

\* pattern.search(password) for a pattern that is one character class
Search(class, p) == \E i \in 1..Len(p) : p[i] \in class

(***************************************************************************)
(* PasswordValidator                                                       *)
(***************************************************************************)
\* def __init__(self, min_length: int = 8)
min_length_default == 8

validate_length(p) == Len(p) >= validator.min_length

validate_uppercase(p) == Search(uppercase_pattern, p)

\* Mutant: every lowercase letter counts, as with str.islower
validate_lowercase_AnyScript(p) == Search(lowercase_pattern \cup { "U+00E9" }, p)

validate_lowercase(p) == Search(lowercase_pattern, p)

validate_digit(p) == Search(digit_pattern, p)

\* Mutant: every character that is not an ASCII letter counts as special
validate_special_char_NonLetters(p) ==
    \E i \in 1..Len(p) : p[i] \notin (uppercase_pattern \cup lowercase_pattern)

validate_special_char(p) == Search(special_char_pattern, p)

\* f"Password must be at least {self.min_length} characters long"
LengthError ==
    "Password must be at least " \o ToString(validator.min_length) \o " characters long"

\* Mutant: the digit rule is reported before the lowercase rule
get_validation_errors_DigitFirst(p) ==
    LET e0 == << >>
        e1 == IF ~validate_length(p) THEN Append(e0, LengthError) ELSE e0
        e2 == IF ~validate_uppercase(p)
              THEN Append(e1, "Password must contain at least one uppercase letter")
              ELSE e1
        e3 == IF ~validate_digit(p)
              THEN Append(e2, "Password must contain at least one digit")
              ELSE e2
        e4 == IF ~validate_lowercase(p)
              THEN Append(e3, "Password must contain at least one lowercase letter")
              ELSE e3
        e5 == IF ~validate_special_char(p)
              THEN Append(e4, "Password must contain at least one special character")
              ELSE e4
    IN  e5

get_validation_errors(p) ==
    LET e0 == << >>
        e1 == IF ~validate_length(p) THEN Append(e0, LengthError) ELSE e0
        e2 == IF ~validate_uppercase(p)
              THEN Append(e1, "Password must contain at least one uppercase letter")
              ELSE e1
        e3 == IF ~validate_lowercase(p)
              THEN Append(e2, "Password must contain at least one lowercase letter")
              ELSE e2
        e4 == IF ~validate_digit(p)
              THEN Append(e3, "Password must contain at least one digit")
              ELSE e3
        e5 == IF ~validate_special_char(p)
              THEN Append(e4, "Password must contain at least one special character")
              ELSE e4
    IN  e5

\* Mutant: a single failing rule is tolerated
is_valid_AllowsOneError(p) == Len(get_validation_errors(p)) <= 1

is_valid(p) == Len(get_validation_errors(p)) = 0

\* Mutant: the empty string is answered with an empty mapping
get_validation_summary_NothingForEmpty(p) ==
    IF Len(p) = 0
    THEN << >>
    ELSE [ length       |-> validate_length(p),
           uppercase    |-> validate_uppercase(p),
           lowercase    |-> validate_lowercase(p),
           digit        |-> validate_digit(p),
           special_char |-> validate_special_char(p) ]

get_validation_summary(p) ==
    [ length       |-> validate_length(p),
      uppercase    |-> validate_uppercase(p),
      lowercase    |-> validate_lowercase(p),
      digit        |-> validate_digit(p),
      special_char |-> validate_special_char(p) ]

(***************************************************************************)
(* PasswordStrengthChecker                                                 *)
(***************************************************************************)
\* self.length_weight = 0.3, self.variety_weight = 0.4,
\* self.complexity_weight = 0.3, in tenths
length_weight_init == 3
variety_weight_init == 4
complexity_weight_init == 3

\* '.' without re.DOTALL: any character but the line feed
Dot(c) == c # "LF"

\* re.compile(r'(.)\1{2,}').search(p): a character matched by '.', followed
\* by two or more copies of itself
repeating_chars_pattern(p) ==
    \E i \in 1..(Len(p) - 2) :
        /\ Dot(p[i])
        /\ p[i + 1] = p[i]
        /\ p[i + 2] = p[i]

\* The alternatives of sequential_chars_pattern, in the order written
SequentialAlternatives ==
    {
      <<"a", "b", "c">>, <<"b", "c", "d">>, <<"c", "d", "e">>, <<"d", "e", "f">>,
      <<"e", "f", "g">>, <<"f", "g", "h">>, <<"g", "h", "i">>, <<"h", "i", "j">>,
      <<"i", "j", "k">>, <<"j", "k", "l">>, <<"k", "l", "m">>, <<"l", "m", "n">>,
      <<"m", "n", "o">>, <<"n", "o", "p">>, <<"o", "p", "q">>, <<"p", "q", "r">>,
      <<"q", "r", "s">>, <<"r", "s", "t">>, <<"s", "t", "u">>, <<"t", "u", "v">>,
      <<"u", "v", "w">>, <<"v", "w", "x">>, <<"w", "x", "y">>, <<"x", "y", "z">>,
      <<"0", "1", "2">>, <<"1", "2", "3">>, <<"2", "3", "4">>, <<"3", "4", "5">>,
      <<"4", "5", "6">>, <<"5", "6", "7">>, <<"6", "7", "8">>, <<"7", "8", "9">>
    }

\* re.IGNORECASE on a str pattern: a literal lowercase letter also matches its
\* uppercase form and the characters whose case folding is that letter
\* (KELVIN SIGN for k, LATIN SMALL LETTER LONG S for s, dotted capital I and
\* dotless small i for i); a literal digit matches itself only.
CaseFolding ==
    [ c \in uppercase_pattern \cup { "U+212A", "U+017F", "U+0130", "U+0131" } |->
        IF c = "U+212A" THEN "k"
        ELSE IF c = "U+017F" THEN "s"
        ELSE IF c \in { "U+0130", "U+0131" } THEN "i"
        ELSE LowerSeq[CHOOSE i \in 1..Len(UpperSeq) : UpperSeq[i] = c] ]

Fold(c) == IF c \in DOMAIN CaseFolding THEN CaseFolding[c] ELSE c

\* sequential_chars_pattern.search(p)
\* Mutant: the alternatives are searched without re.IGNORECASE
sequential_chars_pattern_CaseSensitive(p) ==
    \E i \in 1..(Len(p) - 2) :
        << p[i], p[i + 1], p[i + 2] >> \in SequentialAlternatives

sequential_chars_pattern(p) ==
    LET folded == [ i \in 1..Len(p) |-> Fold(p[i]) ]
    IN  \E i \in 1..(Len(p) - 2) :
            << folded[i], folded[i + 1], folded[i + 2] >> \in SequentialAlternatives

\* Mutant: the first breakpoint off by one
calculate_length_score_OffByOne(p) ==
    LET length == Len(p)
    IN  IF length <= 8 THEN 0
        ELSE IF length <= 10 THEN 30
        ELSE IF length <= 12 THEN 60
        ELSE IF length <= 16 THEN 80
        ELSE 100

calculate_length_score(p) ==
    LET length == Len(p)
    IN  IF length < 8 THEN 0
        ELSE IF length <= 10 THEN 30
        ELSE IF length <= 12 THEN 60
        ELSE IF length <= 16 THEN 80
        ELSE 100

\* Mutant: the length rule is counted in place of the special characters
calculate_variety_score_CountsLength(p) ==
    LET c0 == 0
        c1 == IF validate_uppercase(p) THEN c0 + 1 ELSE c0
        c2 == IF validate_lowercase(p) THEN c1 + 1 ELSE c1
        c3 == IF validate_digit(p) THEN c2 + 1 ELSE c2
        variety_count == IF validate_length(p) THEN c3 + 1 ELSE c3
    IN  (variety_count * 100) \div 4

calculate_variety_score(p) ==
    LET c0 == 0
        c1 == IF validate_uppercase(p) THEN c0 + 1 ELSE c0
        c2 == IF validate_lowercase(p) THEN c1 + 1 ELSE c1
        c3 == IF validate_digit(p) THEN c2 + 1 ELSE c2
        variety_count == IF validate_special_char(p) THEN c3 + 1 ELSE c3
    IN  (variety_count * 100) \div 4

Max(a, b) == IF a >= b THEN a ELSE b

Min(a, b) == IF a <= b THEN a ELSE b

\* Mutant: the bonuses are clamped before the penalties are subtracted
calculate_complexity_score_ClampedEarly(p) ==
    LET s0 == 100
        s1 == IF validate_uppercase(p) /\ validate_lowercase(p) THEN s0 + 10 ELSE s0
        s2 == IF validate_digit(p) /\ validate_special_char(p) THEN s1 + 10 ELSE s1
        s3 == Max(0, Min(100, s2))
        s4 == IF repeating_chars_pattern(p) THEN s3 - 30 ELSE s3
    IN  IF sequential_chars_pattern(p) THEN s4 - 20 ELSE s4

\* Mutant: the score starts from 0.0 instead of 1.0
calculate_complexity_score_NoBaseline(p) ==
    LET s0 == 0
        s1 == IF repeating_chars_pattern(p) THEN s0 - 30 ELSE s0
        s2 == IF sequential_chars_pattern(p) THEN s1 - 20 ELSE s1
        s3 == IF validate_uppercase(p) /\ validate_lowercase(p) THEN s2 + 10 ELSE s2
        score == IF validate_digit(p) /\ validate_special_char(p) THEN s3 + 10 ELSE s3
    IN  Max(0, Min(100, score))

\* Mutant: 0.3 is subtracted for every match of the repeat pattern (findall)
calculate_complexity_score_PenaltyPerRun(p) ==
    LET runs == { i \in 1..(Len(p) - 2) :
                    /\ Dot(p[i]) /\ p[i + 1] = p[i] /\ p[i + 2] = p[i]
                    /\ (i = 1 \/ p[i - 1] # p[i]) }
        s0 == 100
        s1 == s0 - 30 * Cardinality(runs)
        s2 == IF sequential_chars_pattern(p) THEN s1 - 20 ELSE s1
        s3 == IF validate_uppercase(p) /\ validate_lowercase(p) THEN s2 + 10 ELSE s2
        score == IF validate_digit(p) /\ validate_special_char(p) THEN s3 + 10 ELSE s3
    IN  Max(0, Min(100, score))

\* Mutant: a repeat costs 0.4 instead of 0.3
calculate_complexity_score_HeavierRepeat(p) ==
    LET s0 == 100
        s1 == IF repeating_chars_pattern(p) THEN s0 - 40 ELSE s0
        s2 == IF sequential_chars_pattern(p) THEN s1 - 20 ELSE s1
        s3 == IF validate_uppercase(p) /\ validate_lowercase(p) THEN s2 + 10 ELSE s2
        score == IF validate_digit(p) /\ validate_special_char(p) THEN s3 + 10 ELSE s3
    IN  Max(0, Min(100, score))

\* Mutant: a sequential run costs 0.3 instead of 0.2
calculate_complexity_score_HeavierRun(p) ==
    LET s0 == 100
        s1 == IF repeating_chars_pattern(p) THEN s0 - 30 ELSE s0
        s2 == IF sequential_chars_pattern(p) THEN s1 - 30 ELSE s1
        s3 == IF validate_uppercase(p) /\ validate_lowercase(p) THEN s2 + 10 ELSE s2
        score == IF validate_digit(p) /\ validate_special_char(p) THEN s3 + 10 ELSE s3
    IN  Max(0, Min(100, score))

calculate_complexity_score(p) ==
    LET s0 == 100
        s1 == IF repeating_chars_pattern(p) THEN s0 - 30 ELSE s0
        s2 == IF sequential_chars_pattern(p) THEN s1 - 20 ELSE s1
        s3 == IF validate_uppercase(p) /\ validate_lowercase(p) THEN s2 + 10 ELSE s2
        score == IF validate_digit(p) /\ validate_special_char(p) THEN s3 + 10 ELSE s3
    IN  Max(0, Min(100, score))

\* round(x, 2) of x counted in thousandths: the nearest hundredth, a tie going
\* to the even one
Round2(x) ==
    LET q == x \div 10
        r == x % 10
    IN  IF r < 5 THEN q
        ELSE IF r > 5 THEN q + 1
        ELSE IF q % 2 = 0 THEN q ELSE q + 1

\* Mutant: the length and variety weights exchanged
calculate_overall_score_SwappedWeights(p) ==
    Round2(calculate_length_score(p) * checker.variety_weight
           + calculate_variety_score(p) * checker.length_weight
           + calculate_complexity_score(p) * checker.complexity_weight)

calculate_overall_score(p) ==
    LET length_score == calculate_length_score(p)
        variety_score == calculate_variety_score(p)
        complexity_score == calculate_complexity_score(p)
        overall_score == length_score * checker.length_weight
                         + variety_score * checker.variety_weight
                         + complexity_score * checker.complexity_weight
    IN  Round2(overall_score)

\* Mutant: the boundary scores fall into the lower tier
get_strength_category_InclusiveBounds(score) ==
    IF score <= 40 THEN "Weak"
    ELSE IF score <= 70 THEN "Medium"
    ELSE "Strong"

\* Mutant: Strong only above 0.7
get_strength_category_StrongAbove(score) ==
    IF score < 40 THEN "Weak"
    ELSE IF score <= 70 THEN "Medium"
    ELSE "Strong"

get_strength_category(score) ==
    IF score < 40 THEN "Weak"
    ELSE IF score < 70 THEN "Medium"
    ELSE "Strong"

\* Mutant: the category is taken from the complexity score
get_strength_details_CategoryOfComplexity(p) ==
    LET length_score == calculate_length_score(p)
        variety_score == calculate_variety_score(p)
        complexity_score == calculate_complexity_score(p)
        overall_score == calculate_overall_score(p)
        category == get_strength_category(complexity_score)
    IN  [ length_score      |-> length_score,
          variety_score     |-> variety_score,
          complexity_score  |-> complexity_score,
          overall_score     |-> overall_score,
          category          |-> category,
          is_valid          |-> is_valid(p),
          validation_errors |-> get_validation_errors(p) ]

get_strength_details(p) ==
    LET length_score == calculate_length_score(p)
        variety_score == calculate_variety_score(p)
        complexity_score == calculate_complexity_score(p)
        overall_score == calculate_overall_score(p)
        category == get_strength_category(overall_score)
    IN  [ length_score      |-> length_score,
          variety_score     |-> variety_score,
          complexity_score  |-> complexity_score,
          overall_score     |-> overall_score,
          category          |-> category,
          is_valid          |-> is_valid(p),
          validation_errors |-> get_validation_errors(p) ]

\* Mutant: the two pattern checks are chained with elif
get_strength_recommendations_ElifPatterns(p) ==
    LET r0 == << >>
        r1 == IF Len(p) < 12
              THEN Append(r0, "Consider using a longer password (12+ characters)")
              ELSE r0
        r2 == IF ~validate_uppercase(p) THEN Append(r1, "Add uppercase letters") ELSE r1
        r3 == IF ~validate_lowercase(p) THEN Append(r2, "Add lowercase letters") ELSE r2
        r4 == IF ~validate_digit(p) THEN Append(r3, "Add numbers") ELSE r3
        r5 == IF ~validate_special_char(p) THEN Append(r4, "Add special characters") ELSE r4
    IN  IF repeating_chars_pattern(p) THEN Append(r5, "Avoid repeating characters")
        ELSE IF sequential_chars_pattern(p) THEN Append(r5, "Avoid sequential characters")
        ELSE r5

\* Mutant: the length advisory uses the validator's minimum length
get_strength_recommendations_MinLength(p) ==
    LET r0 == << >>
        r1 == IF Len(p) < validator.min_length
              THEN Append(r0, "Consider using a longer password (12+ characters)")
              ELSE r0
        r2 == IF ~validate_uppercase(p) THEN Append(r1, "Add uppercase letters") ELSE r1
        r3 == IF ~validate_lowercase(p) THEN Append(r2, "Add lowercase letters") ELSE r2
        r4 == IF ~validate_digit(p) THEN Append(r3, "Add numbers") ELSE r3
        r5 == IF ~validate_special_char(p) THEN Append(r4, "Add special characters") ELSE r4
        r6 == IF repeating_chars_pattern(p)
              THEN Append(r5, "Avoid repeating characters")
              ELSE r5
        r7 == IF sequential_chars_pattern(p)
              THEN Append(r6, "Avoid sequential characters")
              ELSE r6
    IN  r7

\* Mutant: nothing is recommended for the empty password
get_strength_recommendations_SkipsEmpty(p) ==
    LET r0 == << >>
        r1 == IF Len(p) < 12
              THEN Append(r0, "Consider using a longer password (12+ characters)")
              ELSE r0
        r2 == IF ~validate_uppercase(p) THEN Append(r1, "Add uppercase letters") ELSE r1
        r3 == IF ~validate_lowercase(p) THEN Append(r2, "Add lowercase letters") ELSE r2
        r4 == IF ~validate_digit(p) THEN Append(r3, "Add numbers") ELSE r3
        r5 == IF ~validate_special_char(p) THEN Append(r4, "Add special characters") ELSE r4
        r6 == IF repeating_chars_pattern(p)
              THEN Append(r5, "Avoid repeating characters")
              ELSE r5
        r7 == IF sequential_chars_pattern(p)
              THEN Append(r6, "Avoid sequential characters")
              ELSE r6
    IN  IF Len(p) = 0 THEN << >> ELSE r7

get_strength_recommendations(p) ==
    LET r0 == << >>
        r1 == IF Len(p) < 12
              THEN Append(r0, "Consider using a longer password (12+ characters)")
              ELSE r0
        r2 == IF ~validate_uppercase(p) THEN Append(r1, "Add uppercase letters") ELSE r1
        r3 == IF ~validate_lowercase(p) THEN Append(r2, "Add lowercase letters") ELSE r2
        r4 == IF ~validate_digit(p) THEN Append(r3, "Add numbers") ELSE r3
        r5 == IF ~validate_special_char(p) THEN Append(r4, "Add special characters") ELSE r4
        r6 == IF repeating_chars_pattern(p)
              THEN Append(r5, "Avoid repeating characters")
              ELSE r5
        r7 == IF sequential_chars_pattern(p)
              THEN Append(r6, "Avoid sequential characters")
              ELSE r6
    IN  r7

(***************************************************************************)
(* The other programs of the repository, as they stand before they run:    *)
(* the password checker's command line (password_checker/main.py), the     *)
(* file organizer, the inventory manager and the calculator.               *)
(***************************************************************************)
\* Nothing has been read at a prompt yet
NoInput == [ kind |-> "none", text |-> << >> ]

\* PasswordCheckerApp after display_welcome
PasswordCheckerApp_init ==
    [ pc |-> "password_prompt", read |-> NoInput, output |-> "welcome",
      analysed |-> {} ]

\* A directory without files and without folders
directory_empty == [ files |-> {}, folders |-> {}, inside |-> {} ]

\* FileOrganizer.__init__: organization_stats = {} and errors = []
FileOrganizer_init == [ organization_stats |-> << >>, errors |-> << >> ]

\* Database.create_table on a new file: no row, no id handed out
products_empty == [ rows |-> {}, last_id |-> 0 ]

\* CalculatorApp.__init__: running = True
CalculatorApp_init == [ running |-> TRUE, pc |-> "input" ]

CliAtStart == cli = PasswordCheckerApp_init

OrganizerAtStart == fs = directory_empty /\ organizer = FileOrganizer_init

InventoryAtStart == products = products_empty

CalculatorAtStart == app = CalculatorApp_init

(***************************************************************************)
(* The callers' inputs and the calls.                                      *)
(***************************************************************************)
\* Sample passwords: the empty string, the strings of the documented
\* scenarios, strings with three and with four character classes, a string
\* with a repeat and a run, and the starts of a run and of a repeat.
Stems ==
    {
      << >>,
      << "s", "h", "o", "r", "t" >>,
      << "P", "a", "s", "s", "w", "o", "r", "d", "1", "2", "3" >>,
      << "a", "a", "a", "A", "A", "A", "1", "1", "1", "!", "!", "!" >>,
      << "T", "r", "0", "u", "b", "4", "d", "o", "r", "&", "3", "X", "y", "Z" >>,
      << "a", "A", "1" >>,
      << "a", "A", "1", "!" >>,
      << "a", "a", "a", "B", "c", "1" >>,
      << "a", "b" >>,
      << "c", "c" >>,
      << "1", "2" >>,
      << "A", "!" >>
    }

\* The characters typed after a stem: a lowercase letter, an uppercase letter,
\* a digit, a special character and a blank
Alphabet == { "c", "C", "3", "!", " " }

RECURSIVE StringsUpTo(_)
StringsUpTo(n) ==
    IF n = 0 THEN { << >> }
    ELSE LET shorter == StringsUpTo(n - 1)
         IN  shorter \cup { Append(w, c) : w \in shorter, c \in Alphabet }

\* n characters that are in no character class and form no repeat and no run:
\* apostrophes and blanks in turn
Filler(n) == [ i \in 1..n |-> IF i % 2 = 1 THEN "'" ELSE " " ]

Passwords ==
    { stem \o typed \o Filler(n) :
        stem \in Stems, typed \in StringsUpTo(MaxTyped), n \in 0..MaxPad }

\* Scores a caller may pass to get_strength_category: the tier boundaries,
\* their neighbours below, and the password's own overall score
ScoreSamples(p) == { 39, 40, 69, 70, calculate_overall_score(p) }

Init ==
    /\ password \in Passwords
    /\ validator = [ min_length |-> min_length_default ]
    /\ checker = [ length_weight     |-> length_weight_init,
                   variety_weight    |-> variety_weight_init,
                   complexity_weight |-> complexity_weight_init ]
    /\ ret = [ op |-> "none" ]
    /\ CliAtStart /\ OrganizerAtStart /\ InventoryAtStart /\ CalculatorAtStart

Call_validate_length ==
    /\ ret' = [ op |-> "validate_length", value |-> validate_length(password) ]
    /\ UNCHANGED << password, validator, checker, others >>

Call_validate_uppercase ==
    /\ ret' = [ op |-> "validate_uppercase", value |-> validate_uppercase(password) ]
    /\ UNCHANGED << password, validator, checker, others >>

Call_validate_lowercase ==
    /\ ret' = [ op |-> "validate_lowercase", value |-> validate_lowercase(password) ]
    /\ UNCHANGED << password, validator, checker, others >>

Call_validate_digit ==
    /\ ret' = [ op |-> "validate_digit", value |-> validate_digit(password) ]
    /\ UNCHANGED << password, validator, checker, others >>

Call_validate_special_char ==
    /\ ret' = [ op |-> "validate_special_char", value |-> validate_special_char(password) ]
    /\ UNCHANGED << password, validator, checker, others >>

Call_get_validation_errors ==
    /\ ret' = [ op |-> "get_validation_errors", value |-> get_validation_errors(password) ]
    /\ UNCHANGED << password, validator, checker, others >>

Call_is_valid ==
    /\ ret' = [ op |-> "is_valid", value |-> is_valid(password) ]
    /\ UNCHANGED << password, validator, checker, others >>

Call_get_validation_summary ==
    /\ ret' = [ op |-> "get_validation_summary", value |-> get_validation_summary(password) ]
    /\ UNCHANGED << password, validator, checker, others >>

Call_calculate_length_score ==
    /\ ret' = [ op |-> "calculate_length_score", value |-> calculate_length_score(password) ]
    /\ UNCHANGED << password, validator, checker, others >>

Call_calculate_variety_score ==
    /\ ret' = [ op |-> "calculate_variety_score", value |-> calculate_variety_score(password) ]
    /\ UNCHANGED << password, validator, checker, others >>

Call_calculate_complexity_score ==
    /\ ret' = [ op |-> "calculate_complexity_score", value |-> calculate_complexity_score(password) ]
    /\ UNCHANGED << password, validator, checker, others >>

\* Mutant: the weighted length score is stored back into the length weight
Call_calculate_overall_score_StoresWeight ==
    /\ ret' = [ op |-> "calculate_overall_score", value |-> calculate_overall_score(password) ]
    /\ checker' = [ checker EXCEPT
                      !.length_weight = (calculate_length_score(password) * @) \div 100 ]
    /\ UNCHANGED << password, validator, others >>

Call_calculate_overall_score ==
    /\ ret' = [ op |-> "calculate_overall_score", value |-> calculate_overall_score(password) ]
    /\ UNCHANGED << password, validator, checker, others >>

Call_get_strength_details ==
    /\ ret' = [ op |-> "get_strength_details", value |-> get_strength_details(password) ]
    /\ UNCHANGED << password, validator, checker, others >>

Call_get_strength_recommendations ==
    /\ ret' = [ op |-> "get_strength_recommendations", value |-> get_strength_recommendations(password) ]
    /\ UNCHANGED << password, validator, checker, others >>

Call_get_strength_category ==
    \E score \in ScoreSamples(password) :
        /\ ret' = [ op |-> "get_strength_category", score |-> score,
                    value |-> get_strength_category(score) ]
        /\ UNCHANGED << password, validator, checker, others >>

Next ==
    \/ Call_validate_length
    \/ Call_validate_uppercase
    \/ Call_validate_lowercase
    \/ Call_validate_digit
    \/ Call_validate_special_char
    \/ Call_get_validation_errors
    \/ Call_is_valid
    \/ Call_get_validation_summary
    \/ Call_calculate_length_score
    \/ Call_calculate_variety_score
    \/ Call_calculate_complexity_score
    \/ Call_calculate_overall_score
    \/ Call_get_strength_details
    \/ Call_get_strength_recommendations
    \/ Call_get_strength_category

Spec == Init /\ [][Next]_vars

(***************************************************************************)
(* Strings of arbitrary characters: the same components and calls, the     *)
(* password drawn from short strings over three small character sets.      *)
(***************************************************************************)
\* Letters of both cases and the line feed
PatternLetters == { "a", "b", "c", "A", "B", "LF" }

\* ASCII digits and a decimal digit outside ASCII (ARABIC-INDIC DIGIT THREE)
PatternDigits == { "1", "2", "3", "U+0663" }

\* One character of each class, and characters that are neither ASCII letters
\* nor ASCII digits nor in the special-character set: the blank, LATIN SMALL
\* LETTER E WITH ACUTE and ARABIC-INDIC DIGIT THREE (the filler adds the
\* apostrophe)
ClassChars == { "A", "a", "1", "!", " ", "U+00E9", "U+0663" }

RECURSIVE StringsOver(_, _)
StringsOver(chars, n) ==
    IF n = 0 THEN { << >> }
    ELSE LET shorter == StringsOver(chars, n - 1)
         IN  shorter \cup { Append(w, c) : w \in shorter, c \in chars }

\* The strings over ClassChars are also taken with min_length filler
\* characters after them
CharPasswords ==
    StringsOver(PatternLetters, MaxChars)
    \cup StringsOver(PatternDigits, MaxChars)
    \cup { w \o Filler(n) :
             w \in StringsOver(ClassChars, MaxChars), n \in { 0, min_length_default } }

InitChars ==
    /\ password \in CharPasswords
    /\ validator = [ min_length |-> min_length_default ]
    /\ checker = [ length_weight     |-> length_weight_init,
                   variety_weight    |-> variety_weight_init,
                   complexity_weight |-> complexity_weight_init ]
    /\ ret = [ op |-> "none" ]
    /\ CliAtStart /\ OrganizerAtStart /\ InventoryAtStart /\ CalculatorAtStart

SpecChars == InitChars /\ [][Next]_vars

(***************************************************************************)
(* Reuse of the two objects for one password after another, as in          *)
(* run_interactive_mode: the caller passes another password to the same    *)
(* validator and checker.                                                  *)
(***************************************************************************)
ReusePasswords == Stems

InitReuse ==
    /\ password \in ReusePasswords
    /\ validator = [ min_length |-> min_length_default ]
    /\ checker = [ length_weight     |-> length_weight_init,
                   variety_weight    |-> variety_weight_init,
                   complexity_weight |-> complexity_weight_init ]
    /\ ret = [ op |-> "none" ]
    /\ CliAtStart /\ OrganizerAtStart /\ InventoryAtStart /\ CalculatorAtStart

Pass_password ==
    \E p \in ReusePasswords :
        /\ p # password
        /\ password' = p
        /\ ret' = [ op |-> "none" ]
        /\ UNCHANGED << validator, checker, others >>

NextReuse ==
    \/ Next
    \/ Pass_password

SpecReuse == InitReuse /\ [][NextReuse]_vars

(***************************************************************************)
(* The command line of the password checker (password_checker/main.py):    *)
(* run_interactive_mode calls run_single_check and then asks whether to    *)
(* check another password.  A line read at a prompt is a sequence of       *)
(* characters; a prompt can also end in KeyboardInterrupt or in another    *)
(* exception (EOFError at the end of the input).                           *)
(***************************************************************************)
\* str.lower() of an ASCII character
lower_char(c) ==
    IF \E i \in 1..Len(UpperSeq) : UpperSeq[i] = c
    THEN LowerSeq[CHOOSE i \in 1..Len(UpperSeq) : UpperSeq[i] = c]
    ELSE c

str_lower(text) == [ i \in 1..Len(text) |-> lower_char(text[i]) ]

\* The white space str.strip() removes: the blank and the tab
Whitespace == { " ", "TAB" }

RECURSIVE str_strip(_)
str_strip(text) ==
    IF text = << >> THEN text
    ELSE IF Head(text) \in Whitespace THEN str_strip(Tail(text))
    ELSE IF text[Len(text)] \in Whitespace
         THEN str_strip(SubSeq(text, 1, Len(text) - 1))
    ELSE text

Typed(text) == [ kind |-> "text", text |-> text ]

KeyboardInterrupt == [ kind |-> "KeyboardInterrupt", text |-> << >> ]

\* Any exception other than KeyboardInterrupt, such as EOFError
OtherException == [ kind |-> "Exception", text |-> << >> ]

\* What getpass can yield at the password prompt
PasswordEvents ==
    { Typed(text) : text \in {
          << >>,
          << "e", "x", "i", "t" >>,
          << "E", "X", "I", "T" >>,
          << "E", "x", "i", "t" >>,
          << "e", "x", "i", "t", " " >>,
          << "s", "h", "o", "r", "t" >>,
          << "a", "A", "1", "!" >>,
          << " " >>
      } }
    \cup { KeyboardInterrupt, OtherException }

\* What input() can yield at the continue prompt
AnswerEvents ==
    { Typed(text) : text \in {
          << "n" >>,
          << "n", "o" >>,
          << "e", "x", "i", "t" >>,
          << "q", "u", "i", "t" >>,
          << "N" >>,
          << " ", "N", "o", " " >>,
          << "Q", "U", "I", "T", " " >>,
          << "y" >>,
          << "y", "e", "s" >>,
          << "Y", "E", "S" >>,
          << >>,
          << "m", "a", "y", "b", "e" >>,
          << "n", "n" >>
      } }
    \cup { KeyboardInterrupt, OtherException }

None == [ none |-> TRUE, text |-> << >> ]

Some(text) == [ none |-> FALSE, text |-> text ]

\* Mutant: an empty password is treated as the wish to exit
get_password_input_EmptyIsExit(event) ==
    IF event.kind = "text"
    THEN IF str_lower(event.text) = << "e", "x", "i", "t" >> \/ event.text = << >>
         THEN None
         ELSE Some(event.text)
    ELSE None

\* get_password_input: None for 'exit' in any letter case, for
\* KeyboardInterrupt and for any other exception, else the password as typed
get_password_input(event) ==
    IF event.kind = "text"
    THEN IF str_lower(event.text) = << "e", "x", "i", "t" >>
         THEN None
         ELSE Some(event.text)
    ELSE None

\* What the prompt that ended in an exception printed
ExceptionOutput(event) ==
    IF event.kind = "KeyboardInterrupt" THEN "cancelled" ELSE "error"

\* run_single_check, with the three display methods it calls for a non-empty
\* password: they pass the password to the validator and to the strength
\* checker, the last call being get_strength_recommendations
Run_single_check ==
    /\ cli.pc = "password_prompt"
    /\ \E event \in PasswordEvents :
           LET got == get_password_input(event)
           IN  IF got.none
               THEN /\ cli' = [ cli EXCEPT !.pc = "ended", !.read = event,
                                           !.output = IF event.kind = "text"
                                                      THEN "none"
                                                      ELSE ExceptionOutput(event) ]
                    /\ UNCHANGED << password, ret >>
               ELSE IF got.text = << >>
               THEN /\ cli' = [ cli EXCEPT !.pc = "continue_prompt", !.read = event,
                                           !.output = "empty_error" ]
                    /\ UNCHANGED << password, ret >>
               ELSE /\ password' = got.text
                    /\ ret' = [ op |-> "get_strength_recommendations",
                                value |-> get_strength_recommendations(got.text) ]
                    /\ cli' = [ cli EXCEPT !.pc = "continue_prompt", !.read = event,
                                           !.output = "results",
                                           !.analysed = @ \cup { got.text } ]
    /\ UNCHANGED << validator, checker, fs, organizer, products, app >>

EndAnswers ==
    { << "n" >>, << "n", "o" >>, << "e", "x", "i", "t" >>, << "q", "u", "i", "t" >> }

AgainAnswers == { << "y" >>, << "y", "e", "s" >> }

\* The continue prompt of run_interactive_mode
Ask_continue ==
    /\ cli.pc = "continue_prompt"
    /\ \E event \in AnswerEvents :
           LET choice == str_strip(str_lower(event.text))
           IN  cli' = [ cli EXCEPT
                          !.read = event,
                          !.pc = IF event.kind # "text" THEN "ended"
                                 ELSE IF choice \in EndAnswers THEN "ended"
                                 ELSE "password_prompt",
                          !.output = IF event.kind # "text" THEN ExceptionOutput(event)
                                     ELSE IF choice \in EndAnswers THEN "goodbye"
                                     ELSE IF choice \in AgainAnswers THEN "separator"
                                     ELSE "invalid_choice" ]
    /\ UNCHANGED << password, validator, checker, ret, fs, organizer, products, app >>

InitCli ==
    /\ password = << >>
    /\ validator = [ min_length |-> min_length_default ]
    /\ checker = [ length_weight     |-> length_weight_init,
                   variety_weight    |-> variety_weight_init,
                   complexity_weight |-> complexity_weight_init ]
    /\ ret = [ op |-> "none" ]
    /\ CliAtStart /\ OrganizerAtStart /\ InventoryAtStart /\ CalculatorAtStart

NextCli ==
    \/ Run_single_check
    \/ Ask_continue

SpecCli == InitCli /\ [][NextCli]_vars

(***************************************************************************)
(* The file organizer (src/file_organizer).  A file name is a sequence of  *)
(* characters.  The directory is a record: files, the names of the regular *)
(* files at its top level; folders, the category folders that exist;       *)
(* inside, the pairs << category, name >> of the files in those folders.   *)
(***************************************************************************)
MaxErrors == 1

\* get_file_categories: the extensions of each category
ImagesExtensions ==
    {
      << ".", "j", "p", "g" >>,
      << ".", "j", "p", "e", "g" >>,
      << ".", "p", "n", "g" >>,
      << ".", "g", "i", "f" >>,
      << ".", "b", "m", "p" >>,
      << ".", "t", "i", "f", "f" >>,
      << ".", "w", "e", "b", "p" >>,
      << ".", "s", "v", "g" >>,
      << ".", "i", "c", "o" >>
    }

DocumentsExtensions ==
    {
      << ".", "p", "d", "f" >>,
      << ".", "d", "o", "c" >>,
      << ".", "d", "o", "c", "x" >>,
      << ".", "t", "x", "t" >>,
      << ".", "r", "t", "f" >>,
      << ".", "o", "d", "t" >>,
      << ".", "x", "l", "s" >>,
      << ".", "x", "l", "s", "x" >>,
      << ".", "p", "p", "t" >>,
      << ".", "p", "p", "t", "x" >>,
      << ".", "c", "s", "v" >>
    }

VideosExtensions ==
    {
      << ".", "m", "p", "4" >>,
      << ".", "a", "v", "i" >>,
      << ".", "m", "k", "v" >>,
      << ".", "m", "o", "v" >>,
      << ".", "w", "m", "v" >>,
      << ".", "f", "l", "v" >>,
      << ".", "w", "e", "b", "m" >>,
      << ".", "m", "4", "v" >>
    }

AudioExtensions ==
    {
      << ".", "m", "p", "3" >>,
      << ".", "w", "a", "v" >>,
      << ".", "f", "l", "a", "c" >>,
      << ".", "a", "a", "c" >>,
      << ".", "o", "g", "g" >>,
      << ".", "w", "m", "a" >>
    }

ArchivesExtensions ==
    {
      << ".", "z", "i", "p" >>,
      << ".", "r", "a", "r" >>,
      << ".", "7", "z" >>,
      << ".", "t", "a", "r" >>,
      << ".", "g", "z" >>
    }

CodeExtensions ==
    {
      << ".", "p", "y" >>,
      << ".", "j", "s" >>,
      << ".", "h", "t", "m", "l" >>,
      << ".", "c", "s", "s" >>,
      << ".", "j", "a", "v", "a" >>,
      << ".", "c", "p", "p" >>,
      << ".", "c" >>,
      << ".", "p", "h", "p" >>,
      << ".", "r", "b" >>,
      << ".", "g", "o" >>,
      << ".", "r", "s" >>
    }

ExecutablesExtensions ==
    {
      << ".", "e", "x", "e" >>,
      << ".", "m", "s", "i" >>,
      << ".", "d", "e", "b" >>,
      << ".", "d", "m", "g" >>,
      << ".", "a", "p", "p" >>
    }

Categories ==
    { "Images", "Documents", "Videos", "Audio", "Archives", "Code", "Executables" }

ExtensionsOf(category) ==
    CASE category = "Images" -> ImagesExtensions
      [] category = "Documents" -> DocumentsExtensions
      [] category = "Videos" -> VideosExtensions
      [] category = "Audio" -> AudioExtensions
      [] category = "Archives" -> ArchivesExtensions
      [] category = "Code" -> CodeExtensions
      [] category = "Executables" -> ExecutablesExtensions

\* get_file_category: categories.get(file_extension.lower(), 'Others')
get_file_category(file_extension) ==
    LET key == str_lower(file_extension)
    IN  IF \E c \in Categories : key \in ExtensionsOf(c)
        THEN CHOOSE c \in Categories : key \in ExtensionsOf(c)
        ELSE "Others"

\* _get_all_categories: the categories of the table and 'Others'
get_all_categories == Categories \cup { "Others" }

\* The position of the last dot of the name, 0 if it has none
LastDot(name) ==
    IF \E i \in 1..Len(name) : name[i] = "."
    THEN CHOOSE i \in 1..Len(name) :
             name[i] = "." /\ \A j \in (i + 1)..Len(name) : name[j] # "."
    ELSE 0

\* os.path.splitext: the extension starts at the last dot, unless only dots
\* stand before it
splitext(name) ==
    LET dot == LastDot(name)
    IN  IF dot > 1 /\ \E i \in 1..(dot - 1) : name[i] # "."
        THEN << SubSeq(name, 1, dot - 1), SubSeq(name, dot, Len(name)) >>
        ELSE << name, << >> >>

\* is_hidden_file: filename.startswith('.')
is_hidden_file(name) == Len(name) > 0 /\ name[1] = "."

\* str(counter): the decimal digits of a natural number
RECURSIVE Decimal(_)
Decimal(n) ==
    IF n < 10 THEN << DigitSeq[n + 1] >>
    ELSE Decimal(n \div 10) \o << DigitSeq[(n % 10) + 1] >>

\* os.path.exists for a name in a category folder
ExistsIn(inside, category, name) == << category, name >> \in inside

\* Mutant: the name is returned as it is, in use or not
get_unique_filename_AsIs(inside, category, name) == name

\* get_unique_filename: the name itself if it is not in use in the folder,
\* else base_counter.extension for the first counter from 1 that is not in use
get_unique_filename(inside, category, name) ==
    IF ~ExistsIn(inside, category, name) THEN name
    ELSE LET base == splitext(name)[1]
             extension == splitext(name)[2]
             new_name(counter) == base \o << "_" >> \o Decimal(counter) \o extension
             free == CHOOSE counter \in 1..(Cardinality(inside) + 1) :
                         /\ ~ExistsIn(inside, category, new_name(counter))
                         /\ \A smaller \in 1..(counter - 1) :
                                ExistsIn(inside, category, new_name(smaller))
         IN  new_name(free)

\* dict.get(key, 0) + 1 stored back under key
DictIncrement(dict, key) ==
    [ k \in (DOMAIN dict) \cup { key } |->
        IF k = key THEN (IF key \in DOMAIN dict THEN dict[key] ELSE 0) + 1
        ELSE dict[k] ]

\* list.append under key, the list created when the key is new
DictAppend(dict, key, item) ==
    [ k \in (DOMAIN dict) \cup { key } |->
        IF k = key THEN (IF key \in DOMAIN dict THEN dict[key] ELSE << >>) \o << item >>
        ELSE dict[k] ]

\* The names of the files that stand at the top level of a directory
TopLevelNames ==
    {
      << "a", ".", "j", "p", "g" >>,
      << "a", "_", "1", ".", "j", "p", "g" >>,
      << "b", ".", "T", "X", "T" >>,
      << ".", "e", "n", "v" >>,
      << "n", "o", "t", "e", "s" >>
    }

\* get_file_category of the lower-cased extension of each of these names
CategoryOfTopLevel ==
    [ name \in TopLevelNames |-> get_file_category(str_lower(splitext(name)[2])) ]

\* The category of a file name: get_file_category of its lower-cased extension
CategoryOfName(name) ==
    IF name \in TopLevelNames THEN CategoryOfTopLevel[name]
    ELSE get_file_category(str_lower(splitext(name)[2]))

\* create_category_folders: every category folder that does not exist is
\* made; os.makedirs fails for the folders in blocked, one error each
create_category_folders(dir, errors, blocked) ==
    LET missing == get_all_categories \ dir.folders
        failed == missing \cap blocked
    IN  [ dir    |-> [ dir EXCEPT !.folders = @ \cup (missing \ failed) ],
          errors |-> errors \o [ i \in 1..Cardinality(failed) |-> "folder" ] ]

\* _move_file_to_category: shutil.move to the unique name in the category
\* folder.  It fails with OSError if the folder does not exist or if the
\* move is refused (fails); the directory is then as before.
move_file_to_category(dir, name, category, fails) ==
    LET unique == get_unique_filename(dir.inside, category, name)
    IN  IF category \in dir.folders /\ ~fails
        THEN [ success |-> TRUE, moved_as |-> unique,
               dir |-> [ dir EXCEPT !.files = @ \ { name },
                                    !.inside = @ \cup { << category, unique >> } ] ]
        ELSE [ success |-> FALSE, moved_as |-> name, dir |-> dir ]

\* The loop of organize_files over the listed files, from the k-th on.
\* run holds the directory, the statistics, the errors and the moves printed.
RECURSIVE organize_loop(_, _, _, _, _)
organize_loop(files, k, run, skip_hidden, failing) ==
    IF k > Len(files) THEN run
    ELSE LET filename == files[k]
             category == CategoryOfName(filename)
             moved == move_file_to_category(run.dir, filename, category,
                                            filename \in failing)
             next ==
                 IF skip_hidden /\ is_hidden_file(filename) THEN run
                 ELSE IF moved.success
                 THEN [ dir    |-> moved.dir,
                        stats  |-> DictIncrement(run.stats, category),
                        errors |-> run.errors,
                        moves  |-> Append(run.moves,
                                          [ filename |-> filename,
                                            category |-> category,
                                            moved_as |-> moved.moved_as ]) ]
                 ELSE [ run EXCEPT !.errors = Append(@, "move") ]
         IN  organize_loop(files, k + 1, next, skip_hidden, failing)

\* organize_files.  readable: os.listdir succeeds; files: the names it
\* lists, in its order; blocked and failing: the folders and files for which
\* the operating system refuses the change.
organize_files(dir, org, skip_hidden, readable, blocked, files, failing) ==
    IF ~readable
    THEN [ dir |-> dir, returned |-> << >>, moves |-> << >>,
           organizer |-> [ org EXCEPT !.errors = Append(@, "read") ] ]
    ELSE IF files = << >>
    THEN [ dir |-> dir, returned |-> << >>, moves |-> << >>, organizer |-> org ]
    ELSE LET made == create_category_folders(dir, org.errors, blocked)
             start == [ dir |-> made.dir, stats |-> << >>,
                        errors |-> made.errors, moves |-> << >> ]
             end == organize_loop(files, 1, start, skip_hidden, failing)
         IN  [ dir |-> end.dir, returned |-> end.stats, moves |-> end.moves,
               organizer |-> [ organization_stats |-> end.stats,
                               errors |-> end.errors ] ]

\* The loop of dry_run over the listed files, from the k-th on
RECURSIVE dry_run_loop(_, _, _, _)
dry_run_loop(files, k, results, skip_hidden) ==
    IF k > Len(files) THEN results
    ELSE LET filename == files[k]
             next == IF skip_hidden /\ is_hidden_file(filename) THEN results
                     ELSE DictAppend(results, CategoryOfName(filename), filename)
         IN  dry_run_loop(files, k + 1, next, skip_hidden)

\* Mutant: dry_run creates the category folders, as organize_files does
dry_run_MakesFolders(dir, org, skip_hidden, readable, files) ==
    IF ~readable
    THEN [ dir |-> dir, returned |-> << >>,
           organizer |-> [ org EXCEPT !.errors = Append(@, "read") ] ]
    ELSE [ dir |-> create_category_folders(dir, org.errors, {}).dir,
           returned |-> dry_run_loop(files, 1, << >>, skip_hidden),
           organizer |-> org ]

\* dry_run
dry_run(dir, org, skip_hidden, readable, files) ==
    IF ~readable
    THEN [ dir |-> dir, returned |-> << >>,
           organizer |-> [ org EXCEPT !.errors = Append(@, "read") ] ]
    ELSE [ dir |-> dir,
           returned |-> dry_run_loop(files, 1, << >>, skip_hidden),
           organizer |-> org ]

RECURSIVE SumOver(_, _)
SumOver(dict, keys) ==
    IF keys = {} THEN 0
    ELSE LET key == CHOOSE k \in keys : TRUE
         IN  dict[key] + SumOver(dict, keys \ { key })

\* get_organization_summary: the fixed sentence if organization_stats is
\* empty, else the heading, the count of each category, the total and the
\* number of errors
get_organization_summary(org) ==
    IF DOMAIN org.organization_stats = {}
    THEN [ text |-> "No files were organized.", counts |-> << >>, total |-> 0,
           errors |-> 0 ]
    ELSE [ text |-> "=== ORGANIZATION SUMMARY ===",
           counts |-> org.organization_stats,
           total |-> SumOver(org.organization_stats, DOMAIN org.organization_stats),
           errors |-> Len(org.errors) ]

\* The most files at the top level of the directory at the start
MaxFiles == 2

\* File names: two pictures, the second named like a renamed copy of the
\* first, a document with an upper-case extension, a hidden file and a file
\* without extension
NamePool == TopLevelNames

\* What the category folders can hold at the start: nothing, a picture, or
\* the picture and a renamed copy of it
InsidePool ==
    {
      {},
      { << "Images", << "a", ".", "j", "p", "g" >> >> },
      { << "Images", << "a", ".", "j", "p", "g" >> >>,
        << "Images", << "a", "_", "1", ".", "j", "p", "g" >> >> }
    }

\* The directories at the start: at most MaxFiles files at the top level, and
\* the folders of the files that are in category folders
Directories ==
    { [ files |-> top, folders |-> { entry[1] : entry \in within }, inside |-> within ] :
        top \in { t \in SUBSET NamePool : Cardinality(t) <= MaxFiles },
        within \in InsidePool }

\* The orders in which os.listdir can list the names
Orders(names) ==
    { order \in [ 1..Cardinality(names) -> names ] :
        \A i, j \in 1..Cardinality(names) : order[i] = order[j] => i = j }

\* The folders whose creation can be refused: none, or one that is needed
Blockings(dir) ==
    { {} } \cup { { category } :
                    category \in (get_all_categories \ dir.folders)
                                 \cap { CategoryOfName(name) : name \in dir.files } }

Call_organize_files ==
    /\ \E skip_hidden \in BOOLEAN, readable \in BOOLEAN :
       \E files \in IF readable THEN Orders(fs.files) ELSE { << >> } :
       \E blocked \in IF readable THEN Blockings(fs) ELSE { {} } :
       \E failing \in IF readable THEN SUBSET fs.files ELSE { {} } :
           LET done == organize_files(fs, organizer, skip_hidden, readable,
                                      blocked, files, failing)
           IN  /\ Len(done.organizer.errors) <= MaxErrors
               /\ fs' = done.dir
               /\ organizer' = done.organizer
               /\ ret' = [ op |-> "organize_files", value |-> done.returned,
                           moves |-> done.moves, skip_hidden |-> skip_hidden ]
    /\ UNCHANGED << password, validator, checker, cli, products, app >>

Call_dry_run ==
    /\ \E skip_hidden \in BOOLEAN, readable \in BOOLEAN :
       \E files \in IF readable THEN Orders(fs.files) ELSE { << >> } :
           LET done == dry_run(fs, organizer, skip_hidden, readable, files)
           IN  /\ Len(done.organizer.errors) <= MaxErrors
               /\ fs' = done.dir
               /\ organizer' = done.organizer
               /\ ret' = [ op |-> "dry_run", value |-> done.returned,
                           listed |-> files, readable |-> readable,
                           skip_hidden |-> skip_hidden ]
    /\ UNCHANGED << password, validator, checker, cli, products, app >>

Call_get_organization_summary ==
    /\ ret' = [ op |-> "get_organization_summary",
                value |-> get_organization_summary(organizer) ]
    /\ UNCHANGED << password, validator, checker, cli, fs, organizer, products, app >>

InitOrganizer ==
    /\ password = << >>
    /\ validator = [ min_length |-> min_length_default ]
    /\ checker = [ length_weight     |-> length_weight_init,
                   variety_weight    |-> variety_weight_init,
                   complexity_weight |-> complexity_weight_init ]
    /\ ret = [ op |-> "none" ]
    /\ fs \in Directories
    /\ organizer = FileOrganizer_init
    /\ CliAtStart /\ InventoryAtStart /\ CalculatorAtStart

NextOrganizer ==
    \/ Call_organize_files
    \/ Call_dry_run
    \/ Call_get_organization_summary

SpecOrganizer == InitOrganizer /\ [][NextOrganizer]_vars

(***************************************************************************)
(* The inventory manager (src/inventory_manager).  The products table is   *)
(* a set of rows with the columns id, name, price and quantity, and the    *)
(* last id AUTOINCREMENT handed out, as the manager's connection reads it. *)
(* A price is a float: a number, counted in hundredths, or NaN, which      *)
(* sqlite3 stores as NULL.                                                 *)
(***************************************************************************)
\* The most rows ever inserted into the table
MaxId == 2

Number(hundredths) == [ nan |-> FALSE, hundredths |-> hundredths ]

NaN == [ nan |-> TRUE, hundredths |-> 0 ]

\* price <= 0 on floats: false for NaN
LessOrEqualZero(price) == ~price.nan /\ price.hundredths <= 0

\* SELECT * FROM products WHERE name = ?
SelectByName(table, name) == { row \in table.rows : row.name = name }

\* get_product_by_name: the row, or None
get_product_by_name(table, name) ==
    IF SelectByName(table, name) = {} THEN [ none |-> TRUE ]
    ELSE [ none |-> FALSE, row |-> CHOOSE row \in SelectByName(table, name) : TRUE ]

\* The constraints of create_table that an INSERT can violate: name UNIQUE
\* and price NOT NULL
InsertViolatesConstraint(table, name, price) ==
    \/ SelectByName(table, name) # {}
    \/ price.nan

\* INSERT INTO products (name, price, quantity) VALUES (?, ?, ?)
Insert(table, name, price, quantity) ==
    [ rows    |-> table.rows \cup { [ id |-> table.last_id + 1, name |-> name,
                                      price |-> price, quantity |-> quantity ] },
      last_id |-> table.last_id + 1 ]

\* UPDATE products SET quantity = ? WHERE name = ?
UpdateQuantity(table, name, new_quantity) ==
    [ table EXCEPT !.rows = { IF row.name = name
                              THEN [ row EXCEPT !.quantity = new_quantity ]
                              ELSE row : row \in table.rows } ]

\* DELETE FROM products WHERE name = ?
Delete(table, name) ==
    [ table EXCEPT !.rows = { row \in table.rows : row.name # name } ]

\* Mutant: the price is not validated
validate_product_data_AnyPrice(name, price, quantity) ==
    /\ name # << >> /\ str_strip(name) # << >>
    /\ ~(quantity < 0)

\* _validate_product_data
validate_product_data(name, price, quantity) ==
    /\ name # << >> /\ str_strip(name) # << >>
    /\ ~LessOrEqualZero(price)
    /\ ~(quantity < 0)

\* add_product.  raises: the INSERT fails for a reason outside the program
\* (sqlite3.Error); a violated constraint makes it fail as well.
\* commit_fails: the INSERT is done and commit raises; the except clause
\* returns False without a rollback, so the connection keeps the new row.
add_product(table, name, price, quantity, raises, commit_fails) ==
    IF ~get_product_by_name(table, name).none
    THEN [ value |-> FALSE, table |-> table ]
    ELSE IF ~validate_product_data(name, price, quantity)
    THEN [ value |-> FALSE, table |-> table ]
    ELSE IF raises \/ InsertViolatesConstraint(table, name, price)
    THEN [ value |-> FALSE, table |-> table ]
    ELSE [ value |-> ~commit_fails, table |-> Insert(table, name, price, quantity) ]

\* update_product_quantity
update_product_quantity(table, name, new_quantity, raises, commit_fails) ==
    IF new_quantity < 0
    THEN [ value |-> FALSE, table |-> table ]
    ELSE IF get_product_by_name(table, name).none
    THEN [ value |-> FALSE, table |-> table ]
    ELSE IF raises
    THEN [ value |-> FALSE, table |-> table ]
    ELSE [ value |-> ~commit_fails, table |-> UpdateQuantity(table, name, new_quantity) ]

\* delete_product: True if the DELETE removed a row (cursor.rowcount > 0)
delete_product(table, name, raises, commit_fails) ==
    IF get_product_by_name(table, name).none
    THEN [ value |-> FALSE, table |-> table ]
    ELSE IF raises
    THEN [ value |-> FALSE, table |-> table ]
    ELSE [ value |-> ~commit_fails /\ Cardinality(SelectByName(table, name)) > 0,
           table |-> Delete(table, name) ]

\* Product names: the empty name, a blank one, two names, and the first of
\* them after a blank
ProductNames == { << >>, << " " >>, << "a" >>, << "b" >>, << " ", "a" >> }

\* Prices: NaN, zero, a negative and a positive price
Prices == { NaN, Number(0), Number(-100), Number(150) }

Quantities == { -1, 0, 5 }

Call_add_product ==
    /\ products.last_id < MaxId
    /\ \E name \in ProductNames, price \in Prices, quantity \in Quantities,
          raises \in BOOLEAN, commit_fails \in BOOLEAN :
           LET done == add_product(products, name, price, quantity, raises, commit_fails)
           IN  /\ products' = done.table
               /\ ret' = [ op |-> "add_product", name |-> name, price |-> price,
                           quantity |-> quantity, value |-> done.value ]
    /\ UNCHANGED << password, validator, checker, cli, fs, organizer, app >>

Call_update_product_quantity ==
    /\ \E name \in ProductNames, new_quantity \in Quantities, raises \in BOOLEAN,
          commit_fails \in BOOLEAN :
           LET done == update_product_quantity(products, name, new_quantity, raises,
                                               commit_fails)
           IN  /\ products' = done.table
               /\ ret' = [ op |-> "update_product_quantity", name |-> name,
                           price |-> NaN, quantity |-> new_quantity,
                           value |-> done.value ]
    /\ UNCHANGED << password, validator, checker, cli, fs, organizer, app >>

Call_delete_product ==
    /\ \E name \in ProductNames, raises \in BOOLEAN, commit_fails \in BOOLEAN :
           LET done == delete_product(products, name, raises, commit_fails)
           IN  /\ products' = done.table
               /\ ret' = [ op |-> "delete_product", name |-> name, price |-> NaN,
                           quantity |-> 0, value |-> done.value ]
    /\ UNCHANGED << password, validator, checker, cli, fs, organizer, app >>

InitInventory ==
    /\ password = << >>
    /\ validator = [ min_length |-> min_length_default ]
    /\ checker = [ length_weight     |-> length_weight_init,
                   variety_weight    |-> variety_weight_init,
                   complexity_weight |-> complexity_weight_init ]
    /\ ret = [ op |-> "none" ]
    /\ products = products_empty
    /\ CliAtStart /\ OrganizerAtStart /\ CalculatorAtStart

NextInventory ==
    \/ Call_add_product
    \/ Call_update_product_quantity
    \/ Call_delete_product

SpecInventory == InitInventory /\ [][NextInventory]_vars

(***************************************************************************)
(* The command-line calculator (src/cli_calculator).  A float is finite, a *)
(* fraction num/den with den > 0, or infinite with the sign in num, or     *)
(* nan.  The fractions are exact where the floats of the program round.    *)
(***************************************************************************)
Finite(num, den) == [ kind |-> "finite", num |-> num, den |-> den ]

Infinite(sign) == [ kind |-> "inf", num |-> sign, den |-> 1 ]

NotANumber == [ kind |-> "nan", num |-> 0, den |-> 1 ]

\* b == 0 on floats: true of 0.0 and of -0.0, false of nan
IsZero(b) == b.kind = "finite" /\ b.num = 0

SignOf(a) == IF a.num < 0 THEN -1 ELSE 1

Negated(a) == [ a EXCEPT !.num = -a.num ]

\* Calculator.add
add(a, b) ==
    IF a.kind = "nan" \/ b.kind = "nan" THEN NotANumber
    ELSE IF a.kind = "inf" /\ b.kind = "inf"
         THEN IF a.num = b.num THEN a ELSE NotANumber
    ELSE IF a.kind = "inf" THEN a
    ELSE IF b.kind = "inf" THEN b
    ELSE Finite(a.num * b.den + b.num * a.den, a.den * b.den)

\* Calculator.subtract
subtract(a, b) == add(a, Negated(b))

\* Calculator.multiply
multiply(a, b) ==
    IF a.kind = "nan" \/ b.kind = "nan" THEN NotANumber
    ELSE IF a.kind = "inf" \/ b.kind = "inf"
         THEN IF IsZero(a) \/ IsZero(b) THEN NotANumber
              ELSE Infinite(SignOf(a) * SignOf(b))
    ELSE Finite(a.num * b.num, a.den * b.den)

\* a / b for b that is not zero
Quotient(a, b) ==
    IF a.kind = "nan" \/ b.kind = "nan" THEN NotANumber
    ELSE IF a.kind = "inf"
         THEN IF b.kind = "inf" THEN NotANumber
              ELSE Infinite(SignOf(a) * SignOf(b))
    ELSE IF b.kind = "inf" THEN Finite(0, 1)
    ELSE Finite(a.num * b.den * SignOf(b), a.den * b.num * SignOf(b))

Returned(value) == [ raised |-> "no", none |-> FALSE, value |-> value ]

ReturnedNone == [ raised |-> "no", none |-> TRUE, value |-> NotANumber ]

Raised(exception) == [ raised |-> exception, none |-> TRUE, value |-> NotANumber ]

\* Mutant: divide without the test for zero; the float division raises
\* nothing here and yields nan
divide_Unchecked(a, b) ==
    IF IsZero(b) THEN Returned(NotANumber) ELSE Returned(Quotient(a, b))

\* Calculator.divide
divide(a, b) ==
    IF IsZero(b) THEN Raised("ZeroDivisionError") ELSE Returned(Quotient(a, b))

DigitValue(c) == (CHOOSE i \in 1..Len(DigitSeq) : DigitSeq[i] = c) - 1

IsDigits(text) == \A i \in 1..Len(text) : \E j \in 1..Len(DigitSeq) : DigitSeq[j] = text[i]

RECURSIVE DigitsValue(_)
DigitsValue(text) ==
    IF text = << >> THEN 0
    ELSE 10 * DigitsValue(SubSeq(text, 1, Len(text) - 1)) + DigitValue(text[Len(text)])

RECURSIVE PowerOfTen(_)
PowerOfTen(n) == IF n = 0 THEN 1 ELSE 10 * PowerOfTen(n - 1)

\* The position of the first "." of text, or 0
DotAt(text) ==
    IF \E i \in 1..Len(text) : text[i] = "."
    THEN CHOOSE i \in 1..Len(text) : text[i] = "." /\ \A j \in 1..(i - 1) : text[j] # "."
    ELSE 0

\* float() of an unsigned word without exponent: digits with at most one
\* point and at least one digit, or nan, inf, infinity in any letter case
UnsignedFloat(word, sign) ==
    LET lower == str_lower(word)
        dot == DotAt(word)
        whole == IF dot = 0 THEN word ELSE SubSeq(word, 1, dot - 1)
        fraction == IF dot = 0 THEN << >> ELSE SubSeq(word, dot + 1, Len(word))
    IN  IF lower = << "n", "a", "n" >> THEN Returned(NotANumber)
        ELSE IF lower \in { << "i", "n", "f" >>,
                            << "i", "n", "f", "i", "n", "i", "t", "y" >> }
        THEN Returned(Infinite(sign))
        ELSE IF IsDigits(whole) /\ IsDigits(fraction) /\ Len(whole) + Len(fraction) > 0
        THEN Returned(Finite(sign * DigitsValue(whole \o fraction),
                             PowerOfTen(Len(fraction))))
        ELSE ReturnedNone

\* Calculator.validate_number: float(input_str), None on ValueError
validate_number(input_str) ==
    IF input_str = << >> THEN ReturnedNone
    ELSE IF Head(input_str) = "-" THEN UnsignedFloat(Tail(input_str), -1)
    ELSE IF Head(input_str) = "+" THEN UnsignedFloat(Tail(input_str), 1)
    ELSE UnsignedFloat(input_str, 1)

ValidOperators ==
    { << "+" >>, << "-" >>, << "*" >>, << "/" >>,
      << "a", "d", "d" >>,
      << "s", "u", "b", "t", "r", "a", "c", "t" >>,
      << "m", "u", "l", "t", "i", "p", "l", "y" >>,
      << "d", "i", "v", "i", "d", "e" >> }

\* Calculator.validate_operator
validate_operator(operator) == str_lower(operator) \in ValidOperators

\* Calculator.get_operation: the name of the operation, or "None"
get_operation(operator) ==
    LET lower == str_lower(operator)
    IN  IF lower \in { << "+" >>, << "a", "d", "d" >> } THEN "add"
        ELSE IF lower \in { << "-" >>, << "s", "u", "b", "t", "r", "a", "c", "t" >> }
        THEN "subtract"
        ELSE IF lower \in { << "*" >>, << "m", "u", "l", "t", "i", "p", "l", "y" >> }
        THEN "multiply"
        ELSE IF lower \in { << "/" >>, << "d", "i", "v", "i", "d", "e" >> }
        THEN "divide"
        ELSE "None"

\* Calculator.calculate: ZeroDivisionError is raised again
calculate(a, b, operator) ==
    LET operation == get_operation(operator)
    IN  IF operation = "None" THEN ReturnedNone
        ELSE IF operation = "add" THEN Returned(add(a, b))
        ELSE IF operation = "subtract" THEN Returned(subtract(a, b))
        ELSE IF operation = "multiply" THEN Returned(multiply(a, b))
        ELSE divide(a, b)

\* str.split(): the words of text between runs of white space
RECURSIVE split(_)
split(text) ==
    IF text = << >> THEN << >>
    ELSE IF Head(text) \in Whitespace THEN split(Tail(text))
    ELSE LET end == IF \E i \in 1..Len(text) : text[i] \in Whitespace
                    THEN (CHOOSE i \in 1..Len(text) :
                              /\ text[i] \in Whitespace
                              /\ \A j \in 1..(i - 1) : text[j] \notin Whitespace) - 1
                    ELSE Len(text)
         IN  << SubSeq(text, 1, end) >> \o split(SubSeq(text, end + 1, Len(text)))

NotParsed == [ none |-> TRUE, num1 |-> NotANumber, num2 |-> NotANumber, operator |-> << >> ]

\* Calculator.parse_input: (num1, num2, operator), or None
parse_input(input_str) ==
    LET parts == split(str_strip(input_str))
    IN  IF Len(parts) # 3 THEN NotParsed
        ELSE IF validate_number(parts[1]).none \/ validate_number(parts[3]).none
        THEN NotParsed
        ELSE IF ~validate_operator(parts[2]) THEN NotParsed
        ELSE [ none |-> FALSE, num1 |-> validate_number(parts[1]).value,
               num2 |-> validate_number(parts[3]).value, operator |-> parts[2] ]

\* format_result raises when int(result) does: for an infinite result and
\* for nan
format_result_raises(result) == result.kind # "finite"

\* CalculatorApp.process_calculation: what calculate raised and what is
\* printed
process_calculation(user_input) ==
    LET parsed == parse_input(user_input)
        result == calculate(parsed.num1, parsed.num2, parsed.operator)
    IN  IF parsed.none
        THEN [ parsed |-> parsed, raised |-> "no", output |-> "invalid_format" ]
        ELSE IF result.raised = "ZeroDivisionError"
        THEN [ parsed |-> parsed, raised |-> "ZeroDivisionError",
               output |-> "cannot_divide_by_zero" ]
        ELSE IF result.none \/ format_result_raises(result.value)
        THEN [ parsed |-> parsed, raised |-> "no", output |-> "unexpected_error" ]
        ELSE [ parsed |-> parsed, raised |-> "no", output |-> "result" ]

QuitCommands == { << "q", "u", "i", "t" >>, << "e", "x", "i", "t" >>, << "q" >> }

HelpCommands == { << "h", "e", "l", "p" >>, << "h" >> }

ClearCommand == << "c", "l", "e", "a", "r" >>

\* CalculatorApp.handle_command: whether the input was a command, the
\* running flag after it, and what is printed
handle_command(user_input, running) ==
    LET command == str_strip(str_lower(user_input))
    IN  IF command \in QuitCommands
        THEN [ handled |-> TRUE, running |-> FALSE, output |-> "goodbye" ]
        ELSE IF command \in HelpCommands
        THEN [ handled |-> TRUE, running |-> running, output |-> "help" ]
        ELSE IF command = ClearCommand
        THEN [ handled |-> TRUE, running |-> running, output |-> "welcome" ]
        ELSE [ handled |-> FALSE, running |-> running, output |-> "none" ]

EOFError == [ kind |-> "EOFError", text |-> << >> ]

\* Words typed as operands
OperandWords ==
    { << "0" >>, << "0", ".", "0" >>, << "-", "0" >>, << "-", "2", ".", "5" >>,
      << "n", "a", "n" >>, << "I", "n", "f" >>, << "z", "e", "r", "o" >> }

\* Words typed as operators
OperatorWords ==
    { << "/" >>, << "d", "i", "v", "i", "d", "e" >>, << "D", "i", "v", "i", "d", "e" >>,
      << "*" >>, << "-" >>, << "%" >> }

\* Lines typed at the calculator's prompt
CalculationLines ==
    { num1 \o << " " >> \o operator \o << " " >> \o num2 :
          num1 \in OperandWords, operator \in OperatorWords, num2 \in OperandWords }
    \cup { << "5", " ", "/", " ", ".", "0" >>,
           << "5", " ", "a", "d", "d", " ", "+", "0" >>,
           << "5", "/", "0" >>,
           << " ", "5", " ", " ", "/", "TAB", "0", " " >>,
           << "5", " ", "/" >>,
           << "5", " ", "/", " ", "0", " ", "0" >> }

CommandLines ==
    { << >>, << " " >>,
      << "q", "u", "i", "t" >>, << "e", "x", "i", "t" >>, << "q" >>,
      << " ", "Q", "U", "I", "T", " " >>, << "Q" >>,
      << "h", "e", "l", "p" >>, << "h" >>, << "c", "l", "e", "a", "r" >>,
      << "q", "u", "i", "t", " ", "n", "o", "w" >> }

\* What input() can yield at the calculator's prompt
InputEvents ==
    { Typed(text) : text \in CalculationLines \cup CommandLines }
    \cup { KeyboardInterrupt, EOFError, OtherException }

\* What input() can yield at "Do you want to exit? (y/n)"
ExitAnswerEvents ==
    { Typed(text) : text \in { << "y" >>, << "Y", "E", "S" >>, << " ", "y", " " >>,
                               << "n" >>, << >>, << "q", "u", "i", "t" >> } }
    \cup { KeyboardInterrupt, EOFError, OtherException }

NoCalculation == [ parsed |-> NotParsed, raised |-> "no", output |-> "none" ]

\* One pass of the loop of run() up to the prompt's result
Read_input ==
    /\ app.pc = "input" /\ app.running
    /\ \E event \in InputEvents :
           LET user_input == str_strip(event.text)
               command == handle_command(user_input, app.running)
               calculation == process_calculation(user_input)
           IN  IF event.kind = "KeyboardInterrupt"
               THEN /\ app' = [ app EXCEPT !.pc = "confirm_exit" ]
                    /\ ret' = [ op |-> "input", event |-> event,
                                done |-> [ NoCalculation EXCEPT !.output = "interrupted" ] ]
               ELSE IF event.kind = "EOFError"
               THEN /\ app' = [ app EXCEPT !.pc = "ended" ]
                    /\ ret' = [ op |-> "input", event |-> event,
                                done |-> [ NoCalculation EXCEPT !.output = "goodbye" ] ]
               ELSE IF event.kind = "Exception"
               THEN /\ app' = app
                    /\ ret' = [ op |-> "input", event |-> event,
                                done |-> [ NoCalculation EXCEPT !.output = "unexpected_error" ] ]
               ELSE IF user_input = << >>
               THEN /\ app' = app
                    /\ ret' = [ op |-> "input", event |-> event, done |-> NoCalculation ]
               ELSE IF command.handled
               THEN /\ app' = [ running |-> command.running,
                                pc |-> IF command.running THEN "input" ELSE "ended" ]
                    /\ ret' = [ op |-> "handle_command", event |-> event,
                                done |-> [ NoCalculation EXCEPT !.output = command.output ] ]
               ELSE /\ app' = app
                    /\ ret' = [ op |-> "process_calculation", event |-> event,
                                done |-> calculation ]
    /\ UNCHANGED << password, validator, checker, cli, fs, organizer, products >>

\* The question run() asks after KeyboardInterrupt.  An exception raised by
\* this input() is raised inside the except clause and leaves run().
Confirm_exit ==
    /\ app.pc = "confirm_exit"
    /\ \E event \in ExitAnswerEvents :
           /\ app' = [ app EXCEPT !.pc =
                           IF event.kind # "text" THEN "ended"
                           ELSE IF str_strip(str_lower(event.text))
                                    \in { << "y" >>, << "y", "e", "s" >> }
                           THEN "ended"
                           ELSE "input" ]
           /\ ret' = [ op |-> "confirm_exit", event |-> event,
                       done |-> [ NoCalculation EXCEPT !.output =
                                      IF event.kind # "text" THEN "raised"
                                      ELSE IF app'.pc = "ended" THEN "goodbye"
                                      ELSE "continuing" ] ]
    /\ UNCHANGED << password, validator, checker, cli, fs, organizer, products >>

InitCalculator ==
    /\ password = << >>
    /\ validator = [ min_length |-> min_length_default ]
    /\ checker = [ length_weight     |-> length_weight_init,
                   variety_weight    |-> variety_weight_init,
                   complexity_weight |-> complexity_weight_init ]
    /\ ret = [ op |-> "none" ]
    /\ app = CalculatorApp_init
    /\ CliAtStart /\ OrganizerAtStart /\ InventoryAtStart

NextCalculator ==
    \/ Read_input
    \/ Confirm_exit

SpecCalculator == InitCalculator /\ [][NextCalculator]_vars

(***************************************************************************)
(* Properties.  The words of the specification, written without the        *)
(* operators that compute the results.                                     *)
(***************************************************************************)
Abs(x) == IF x < 0 THEN -x ELSE x

\* r hundredths is x thousandths rounded to 2 decimal places: no hundredth is
\* nearer to x, and of two equally near ones r is the even one
IsRoundedTo2(r, x) ==
    /\ Abs(10 * r - x) <= 5
    /\ Abs(10 * r - x) = 5 => r % 2 = 0

\* score hundredths lies in the closed interval [0.0, 1.0]
InUnitInterval(score) == score \in 0..100

Clamp01(score) == IF score < 0 THEN 0 ELSE IF score > 100 THEN 100 ELSE score

\* 1 if the condition holds and 0 if not
Ind(b) == IF b THEN 1 ELSE 0

CategoryOf(score, category) ==
    /\ category = "Weak" <=> score < 40
    /\ category = "Medium" <=> (40 <= score /\ score < 70)
    /\ category = "Strong" <=> score >= 70
    /\ category \in { "Weak", "Medium", "Strong" }

\* C1: for every password, calculate_overall_score is
\* length_score*0.3 + variety_score*0.4 + complexity_score*0.3 rounded to
\* 2 decimal places.
C1_OverallIsWeightedSum ==
    ret.op = "calculate_overall_score" =>
        IsRoundedTo2(ret.value,
                     calculate_length_score(password) * 3
                     + calculate_variety_score(password) * 4
                     + calculate_complexity_score(password) * 3)

\* C1 witness: the overall score of a password whose three sub-scores differ
\* and are all positive
C1_Witness ==
    /\ ret.op = "calculate_overall_score"
    /\ calculate_length_score(password) = 60
    /\ calculate_variety_score(password) = 75
    /\ calculate_complexity_score(password) = 90
    /\ ret.value = 75

\* C2: the overall score lies in [0.0, 1.0]; the category is Weak exactly when
\* score < 0.4, Medium exactly when 0.4 <= score < 0.7 and Strong exactly when
\* score >= 0.7, so 0.4 is Medium and 0.7 is Strong.
C2_ScoreRangeAndCategory ==
    /\ ret.op = "calculate_overall_score" => InUnitInterval(ret.value)
    /\ ret.op = "get_strength_category" => CategoryOf(ret.score, ret.value)
    /\ ret.op = "get_strength_details" =>
           /\ InUnitInterval(ret.value.overall_score)
           /\ CategoryOf(ret.value.overall_score, ret.value.category)

\* C2 witness: a password whose overall score is exactly 0.7 is put in Strong
C2_Witness ==
    /\ ret.op = "get_strength_category"
    /\ ret.score = calculate_overall_score(password)
    /\ ret.score = 70
    /\ ret.value = "Strong"

\* C3: calculate_complexity_score is 1.0, minus 0.3 for a repeat, minus 0.2 for
\* a run, plus 0.1 for both letter cases, plus 0.1 for a digit with a special
\* character, the four summed before the clamp to [0.0, 1.0]; the result is
\* within [0.0, 1.0].
C3_ComplexityAdjustments ==
    ret.op = "calculate_complexity_score" =>
        /\ ret.value =
               Clamp01(100
                       - 30 * Ind(repeating_chars_pattern(password))
                       - 20 * Ind(sequential_chars_pattern(password))
                       + 10 * Ind(validate_uppercase(password) /\ validate_lowercase(password))
                       + 10 * Ind(validate_digit(password) /\ validate_special_char(password)))
        /\ InUnitInterval(ret.value)

\* C3 witness: a password to which all four adjustments apply
C3_Witness ==
    /\ ret.op = "calculate_complexity_score"
    /\ repeating_chars_pattern(password)
    /\ sequential_chars_pattern(password)
    /\ validate_uppercase(password) /\ validate_lowercase(password)
    /\ validate_digit(password) /\ validate_special_char(password)
    /\ ret.value = 70

ClassKeys == { "uppercase", "lowercase", "digit", "special_char" }

\* C4: calculate_variety_score is the number of the predicates uppercase,
\* lowercase, digit, special_char that hold, divided by 4: one of 0.0, 0.25,
\* 0.5, 0.75, 1.0.
C4_VarietyIsQuarterCount ==
    ret.op = "calculate_variety_score" =>
        /\ 4 * ret.value =
               100 * Cardinality({ k \in ClassKeys : get_validation_summary(password)[k] })
        /\ ret.value \in { 0, 25, 50, 75, 100 }

\* C4 witness: three of the four classes are present
C4_Witness ==
    /\ ret.op = "calculate_variety_score"
    /\ validate_uppercase(password) /\ validate_lowercase(password)
    /\ validate_digit(password) /\ ~validate_special_char(password)
    /\ ret.value = 75

\* The buckets of the length table: lowest length, highest length, score
LengthBuckets ==
    { << 0, 7, 0 >>, << 8, 10, 30 >>, << 11, 12, 60 >>, << 13, 16, 80 >> }

InBucket(n, b) == b[1] <= n /\ n <= b[2]

Prefix(p, k) == SubSeq(p, 1, k)

\* C5: calculate_length_score is 0.0 for n < 8, 0.3 for 8..10, 0.6 for 11..12,
\* 0.8 for 13..16 and 1.0 for n > 16; every length is in exactly one bucket,
\* and the score never decreases as n grows.
C5_LengthStepFunction ==
    ret.op = "calculate_length_score" =>
        LET n == Len(password)
        IN  /\ \A b \in LengthBuckets : InBucket(n, b) => ret.value = b[3]
            /\ n > 16 => ret.value = 100
            /\ Cardinality({ b \in LengthBuckets : InBucket(n, b) }) + Ind(n > 16) = 1
            /\ \A k \in 0..n : calculate_length_score(Prefix(password, k)) <= ret.value

\* C5 witness: a password of 11 characters, the first length of the third bucket
C5_Witness ==
    /\ ret.op = "calculate_length_score"
    /\ Len(password) = 11
    /\ ret.value = 60

\* The five rules in their fixed order, and the message of each
RuleOrder == << "length", "uppercase", "lowercase", "digit", "special_char" >>

RuleMessage ==
    [ length       |-> "Password must be at least 8 characters long",
      uppercase    |-> "Password must contain at least one uppercase letter",
      lowercase    |-> "Password must contain at least one lowercase letter",
      digit        |-> "Password must contain at least one digit",
      special_char |-> "Password must contain at least one special character" ]

\* The entries of order whose condition holds, in the order of order, each
\* replaced by its text
RECURSIVE Selected(_, _, _)
Selected(order, holds, text) ==
    IF order = << >> THEN << >>
    ELSE LET rest == Selected(Tail(order), holds, text)
         IN  IF holds[Head(order)] THEN << text[Head(order)] >> \o rest ELSE rest

\* C6: get_validation_summary has exactly the five keys length, uppercase,
\* lowercase, digit, special_char; get_validation_errors holds exactly one
\* message per key whose value is false, in that fixed order.
C6_SummaryKeysAndErrorOrder ==
    /\ ret.op = "get_validation_summary" =>
           /\ DOMAIN ret.value = Range(RuleOrder)
           /\ \A k \in DOMAIN ret.value : ret.value[k] \in BOOLEAN
    /\ ret.op = "get_validation_errors" =>
           LET summary == get_validation_summary(password)
               failed == [ k \in Range(RuleOrder) |-> ~summary[k] ]
           IN  /\ ret.value = Selected(RuleOrder, failed, RuleMessage)
               /\ Len(ret.value) = Cardinality({ k \in Range(RuleOrder) : failed[k] })

\* C6 witness: the errors of a password that fails the lowercase rule and the
\* digit rule and passes the three others
C6_Witness ==
    /\ ret.op = "get_validation_errors"
    /\ validate_length(password) /\ validate_uppercase(password)
    /\ validate_special_char(password)
    /\ ret.value = << RuleMessage.lowercase, RuleMessage.digit >>

\* C7: is_valid is true if and only if get_validation_errors is the empty
\* sequence, which holds if and only if all five predicates are true.
C7_ValidIffNoErrorsIffAllRules ==
    ret.op = "is_valid" =>
        LET allRules == /\ validate_length(password)
                        /\ validate_uppercase(password)
                        /\ validate_lowercase(password)
                        /\ validate_digit(password)
                        /\ validate_special_char(password)
        IN  /\ ret.value <=> (get_validation_errors(password) = << >>)
            /\ (get_validation_errors(password) = << >>) <=> allRules

\* C7 witness: is_valid answers true for a password
C7_Witness ==
    /\ ret.op = "is_valid"
    /\ ret.value = TRUE
    /\ Len(password) >= 8

\* The seven checks of the recommendations in their fixed order
AdviceOrder ==
    << "length", "uppercase", "lowercase", "digit", "special_char", "repeating",
       "sequential" >>

AdviceText ==
    [ length       |-> "Consider using a longer password (12+ characters)",
      uppercase    |-> "Add uppercase letters",
      lowercase    |-> "Add lowercase letters",
      digit        |-> "Add numbers",
      special_char |-> "Add special characters",
      repeating    |-> "Avoid repeating characters",
      sequential   |-> "Avoid sequential characters" ]

AdviceCondition(p) ==
    [ length       |-> Len(p) < 12,
      uppercase    |-> ~validate_uppercase(p),
      lowercase    |-> ~validate_lowercase(p),
      digit        |-> ~validate_digit(p),
      special_char |-> ~validate_special_char(p),
      repeating    |-> repeating_chars_pattern(p),
      sequential   |-> sequential_chars_pattern(p) ]

\* C8: get_strength_recommendations holds an advisory for exactly those of the
\* seven conditions that hold, each at most once, in the fixed order; no
\* advisory suppresses another.
C8_RecommendationsPerCondition ==
    ret.op = "get_strength_recommendations" =>
        /\ ret.value = Selected(AdviceOrder, AdviceCondition(password), AdviceText)
        /\ \A i, j \in 1..Len(ret.value) : ret.value[i] = ret.value[j] => i = j

\* C8 witness: a password with a repeat and a run gets both pattern advisories
\* after the length advisory
C8_Witness ==
    /\ ret.op = "get_strength_recommendations"
    /\ Len(ret.value) >= 3
    /\ ret.value[1] = AdviceText.length
    /\ ret.value[Len(ret.value) - 1] = AdviceText.repeating
    /\ ret.value[Len(ret.value)] = AdviceText.sequential

\* C9: get_strength_recommendations is empty if and only if the password has
\* at least 12 characters, all four character classes, and matches neither
\* the repeating nor the sequential pattern.
C9_NoRecommendationIffNothingToImprove ==
    ret.op = "get_strength_recommendations" =>
        ( ret.value = << >> <=>
            /\ Len(password) >= 12
            /\ validate_uppercase(password) /\ validate_lowercase(password)
            /\ validate_digit(password) /\ validate_special_char(password)
            /\ ~repeating_chars_pattern(password)
            /\ ~sequential_chars_pattern(password) )

\* C9 witness: a password that gets no recommendation
C9_Witness ==
    /\ ret.op = "get_strength_recommendations"
    /\ ret.value = << >>

\* C10: the record of get_strength_details is consistent: the three sub-scores
\* are the calculate_* results, overall_score is their 0.3/0.4/0.3 combination
\* rounded to 2 decimals, category is get_strength_category(overall_score),
\* validation_errors is get_validation_errors, and is_valid is true exactly
\* when validation_errors is empty.
C10_DetailsConsistent ==
    ret.op = "get_strength_details" =>
        LET d == ret.value
        IN  /\ d.length_score = calculate_length_score(password)
            /\ d.variety_score = calculate_variety_score(password)
            /\ d.complexity_score = calculate_complexity_score(password)
            /\ IsRoundedTo2(d.overall_score,
                            3 * d.length_score + 4 * d.variety_score
                            + 3 * d.complexity_score)
            /\ d.category = get_strength_category(d.overall_score)
            /\ d.validation_errors = get_validation_errors(password)
            /\ d.is_valid <=> (d.validation_errors = << >>)

\* C10 witness: the details of a password of category Medium with one failing
\* rule
C10_Witness ==
    /\ ret.op = "get_strength_details"
    /\ ret.value.category = "Medium"
    /\ ret.value.complexity_score > ret.value.overall_score
    /\ Len(ret.value.validation_errors) = 1
    /\ ~ret.value.is_valid

\* Some character stands at three or more consecutive positions of p, the
\* copies being the same character exactly
HasTripleRepeat(p) ==
    \E i \in 1..(Len(p) - 2) : p[i] = p[i + 1] /\ p[i + 1] = p[i + 2]

\* The lowercase form of an ASCII letter; any other character is itself
AsciiLower(c) ==
    IF \E i \in 1..26 : UpperSeq[i] = c
    THEN LowerSeq[CHOOSE i \in 1..26 : UpperSeq[i] = c]
    ELSE c

\* The 32 ascending triplets abc..xyz and 012..789
AscendingTriplets ==
    { SubSeq(LowerSeq, i, i + 2) : i \in 1..24 } \cup { SubSeq(DigitSeq, i, i + 2) : i \in 1..8 }

\* Some three consecutive characters of p, letter case ignored, are an ascending
\* triplet
HasAscendingRun(p) ==
    \E i \in 1..(Len(p) - 2) :
        << AsciiLower(p[i]), AsciiLower(p[i + 1]), AsciiLower(p[i + 2]) >> \in AscendingTriplets

\* C11 (the claim as stated): the repeating-characters check matches if and
\* only if some character occurs at least 3 times in a row, compared exactly;
\* the sequential-characters check matches if and only if some 3 consecutive
\* characters, compared case-insensitively, are one of the 32 ascending
\* triplets.  The checks are read off the two pattern advisories.
C11_PatternsAsClaimed ==
    ret.op = "get_strength_recommendations" =>
        /\ (\E i \in 1..Len(ret.value) : ret.value[i] = "Avoid repeating characters")
               <=> HasTripleRepeat(password)
        /\ (\E i \in 1..Len(ret.value) : ret.value[i] = "Avoid sequential characters")
               <=> HasAscendingRun(password)

\* The characters of p that are in the set kept, in their order
Only(p, kept) == SelectSeq(p, LAMBDA c : c \in kept)

\* A-Z, a-z, 0-9 and the fixed special-character set
AsciiClassed ==
    Range(UpperSeq) \cup Range(LowerSeq) \cup Range(DigitSeq) \cup special_char_pattern

\* A-Z, a-z, the decimal digits of every script, and the special-character set
Classed == AsciiClassed \cup digit_pattern

Texts(table) == { table[k] : k \in DOMAIN table }

\* s is a sequence of distinct members of texts
IsListOf(s, texts) ==
    /\ DOMAIN s = 1..Len(s)
    /\ \A i \in 1..Len(s) : s[i] \in texts
    /\ \A i, j \in 1..Len(s) : s[i] = s[j] => i = j

DetailsFields ==
    { "length_score", "variety_score", "complexity_score", "overall_score",
      "category", "is_valid", "validation_errors" }

\* The value returned by operation op is a result of the kind op returns
WellFormed(op, value) ==
    CASE op \in { "validate_length", "validate_uppercase", "validate_lowercase",
                  "validate_digit", "validate_special_char", "is_valid" } ->
             value \in BOOLEAN
      [] op = "get_validation_errors" -> IsListOf(value, Texts(RuleMessage))
      [] op = "get_validation_summary" ->
             /\ DOMAIN value = Range(RuleOrder)
             /\ \A k \in DOMAIN value : value[k] \in BOOLEAN
      [] op \in { "calculate_length_score", "calculate_variety_score",
                  "calculate_complexity_score", "calculate_overall_score" } ->
             InUnitInterval(value)
      [] op = "get_strength_category" -> value \in { "Weak", "Medium", "Strong" }
      [] op = "get_strength_details" ->
             /\ DOMAIN value = DetailsFields
             /\ InUnitInterval(value.length_score)
             /\ InUnitInterval(value.variety_score)
             /\ InUnitInterval(value.complexity_score)
             /\ InUnitInterval(value.overall_score)
             /\ value.category \in { "Weak", "Medium", "Strong" }
             /\ value.is_valid \in BOOLEAN
             /\ IsListOf(value.validation_errors, Texts(RuleMessage))
      [] op = "get_strength_recommendations" -> IsListOf(value, Texts(AdviceText))
      [] OTHER -> FALSE

\* C13: every Validator and StrengthScorer operation is total over strings:
\* for every input string, the empty string and strings of arbitrary
\* characters included, each operation can be called on the string and
\* returns a well-formed result.
C13_OperationsTotal ==
    /\ ret.op # "none" => WellFormed(ret.op, ret.value)
    /\ ret.op = "none" =>
           /\ ENABLED Call_validate_length
           /\ ENABLED Call_validate_uppercase
           /\ ENABLED Call_validate_lowercase
           /\ ENABLED Call_validate_digit
           /\ ENABLED Call_validate_special_char
           /\ ENABLED Call_get_validation_errors
           /\ ENABLED Call_is_valid
           /\ ENABLED Call_get_validation_summary
           /\ ENABLED Call_calculate_length_score
           /\ ENABLED Call_calculate_variety_score
           /\ ENABLED Call_calculate_complexity_score
           /\ ENABLED Call_calculate_overall_score
           /\ ENABLED Call_get_strength_category
           /\ ENABLED Call_get_strength_details
           /\ ENABLED Call_get_strength_recommendations

\* C13 witness: the summary of the empty string has been returned
C13_Witness ==
    /\ ret.op = "get_validation_summary"
    /\ password = << >>
    /\ DOMAIN ret.value = Range(RuleOrder)

\* C14: validation and scoring leave the components unchanged: after any
\* sequence of calls on any passwords min_length and the three weights hold
\* their construction-time values (the compiled patterns are immutable), and
\* calling a function again on the same password returns the identical result.
C14_ComponentsUnchanged ==
    /\ [](/\ validator = [ min_length |-> 8 ]
          /\ checker = [ length_weight |-> 3, variety_weight |-> 4,
                         complexity_weight |-> 3 ])
    /\ [][ ( /\ ret.op # "none"
             /\ ret'.op = ret.op
             /\ password' = password
             /\ ret.op = "get_strength_category" => ret'.score = ret.score )
           => ret'.value = ret.value ]_vars

\* C14 witness: a score has been returned for one of the reused passwords and
\* the weights are the ones set at construction
C14_Witness ==
    /\ ret.op = "calculate_overall_score"
    /\ password \in ReusePasswords
    /\ ret.value = 94
    /\ checker.length_weight = 3 /\ checker.variety_weight = 4
    /\ checker.complexity_weight = 3

\* The text is one of the entries of the list
Contains(list, text) == \E i \in 1..Len(list) : list[i] = text

Troubador ==
    << "T", "r", "0", "u", "b", "4", "d", "o", "r", "&", "3", "X", "y", "Z" >>

\* C15 as stated: for "Tr0ub4dor&3XyZ" no repeat and no sequential run is
\* detected, length_score is 0.8, variety_score 1.0, complexity_score 1.0,
\* overall_score 0.94 and the category Strong.
C15_TroubadorAsClaimed ==
    password = Troubador =>
        /\ ret.op = "get_strength_recommendations" =>
               /\ ~Contains(ret.value, AdviceText.repeating)
               /\ ~Contains(ret.value, AdviceText.sequential)
        /\ ret.op = "calculate_length_score" => ret.value = 80
        /\ ret.op = "calculate_variety_score" => ret.value = 100
        /\ ret.op = "calculate_complexity_score" => ret.value = 100
        /\ ret.op = "calculate_overall_score" => ret.value = 94
        /\ ret.op = "get_strength_details" => ret.value.category = "Strong"

\* C15 amended: for "Tr0ub4dor&3XyZ" no repeat is detected but the sequential
\* run "XyZ" is (the search ignores case), so the 0.2 penalty applies and is
\* made up for by the two 0.1 bonuses: complexity_score is 1.0, length_score
\* 0.8, variety_score 1.0, overall_score 0.94 and the category Strong, and the
\* recommendations are exactly the advice against sequential characters.
C15_TroubadorSequentialRunOffset ==
    password = Troubador =>
        /\ ret.op = "get_strength_recommendations" =>
               ret.value = << AdviceText.sequential >>
        /\ ret.op = "calculate_length_score" => ret.value = 80
        /\ ret.op = "calculate_variety_score" => ret.value = 100
        /\ ret.op = "calculate_complexity_score" =>
               ret.value = Clamp01(100 - 20 + 10 + 10) /\ ret.value = 100
        /\ ret.op = "calculate_overall_score" => ret.value = 94
        /\ ret.op = "get_strength_details" =>
               /\ ret.value.category = "Strong"
               /\ ret.value.complexity_score = 100
               /\ ret.value.overall_score = 94

\* C15 witness: the recommendations for "Tr0ub4dor&3XyZ" have been returned
\* and name the sequential run
C15_Witness ==
    /\ password = Troubador
    /\ ret.op = "get_strength_recommendations"
    /\ Contains(ret.value, AdviceText.sequential)

Short == << "s", "h", "o", "r", "t" >>

ShortErrors ==
    << RuleMessage.length, RuleMessage.uppercase, RuleMessage.digit,
       RuleMessage.special_char >>

\* C16 as stated: for "short" length_score is 0.0, variety_score 0.25,
\* validation_errors has the 4 entries length, uppercase, digit, special
\* character in that order, and the category is Weak.
C16_ShortAsClaimed ==
    password = Short =>
        /\ ret.op = "calculate_length_score" => ret.value = 0
        /\ ret.op = "calculate_variety_score" => ret.value = 25
        /\ ret.op = "get_validation_errors" => ret.value = ShortErrors
        /\ ret.op = "get_strength_details" =>
               /\ ret.value.length_score = 0
               /\ ret.value.variety_score = 25
               /\ ret.value.validation_errors = ShortErrors
               /\ ret.value.category = "Weak"

\* C16 amended: for "short" length_score is 0.0, variety_score 0.25,
\* complexity_score 1.0 and validation_errors has the 4 entries length,
\* uppercase, digit, special character in that order; overall_score is
\* 0.40 = 0.0*0.3 + 0.25*0.4 + 1.0*0.3, which is not below 0.4, so the category
\* is Medium.
C16_ShortIsMedium ==
    password = Short =>
        /\ ret.op = "calculate_length_score" => ret.value = 0
        /\ ret.op = "calculate_variety_score" => ret.value = 25
        /\ ret.op = "calculate_complexity_score" => ret.value = 100
        /\ ret.op = "calculate_overall_score" => ret.value = 40
        /\ ret.op = "get_validation_errors" => ret.value = ShortErrors
        /\ ret.op = "get_strength_details" =>
               /\ ret.value.length_score = 0
               /\ ret.value.variety_score = 25
               /\ ret.value.complexity_score = 100
               /\ ret.value.overall_score = 40
               /\ ret.value.validation_errors = ShortErrors
               /\ ret.value.category = "Medium"

\* C16 witness: the details of "short" have been returned with four errors
C16_Witness ==
    /\ password = Short
    /\ ret.op = "get_strength_details"
    /\ Len(ret.value.validation_errors) = 4
    /\ ret.value.overall_score = 40

\* The number of maximal runs of three or more copies of one character in p
RepeatRuns(p) ==
    Cardinality({ i \in 1..(Len(p) - 2) :
                    /\ p[i + 1] = p[i]
                    /\ p[i + 2] = p[i]
                    /\ (i = 1 \/ p[i - 1] # p[i]) })

FourRuns == << "a", "a", "a", "A", "A", "A", "1", "1", "1", "!", "!", "!" >>

OneRun == << "a", "a", "a", "A", "1", "!" >>

\* C17: the repetition penalty is applied once however many runs of three or
\* more identical characters the password has: with at least one run the
\* complexity score is 1.0 - 0.3, less 0.2 for a sequential run, plus the
\* bonuses, clamped; for "aaaAAA111!!!" (four runs) it is 0.9, the score of
\* "aaaA1!" with one run and the same bonuses.
C17_RepetitionPenaltyOnce ==
    (ret.op = "calculate_complexity_score" /\ RepeatRuns(password) >= 1) =>
        /\ ret.value =
               Clamp01(100 - 30
                       - 20 * Ind(sequential_chars_pattern(password))
                       + 10 * Ind(validate_uppercase(password) /\ validate_lowercase(password))
                       + 10 * Ind(validate_digit(password) /\ validate_special_char(password)))
        /\ password = FourRuns =>
               /\ RepeatRuns(FourRuns) = 4
               /\ RepeatRuns(OneRun) = 1
               /\ ret.value = 100 - 30 + 10 + 10
               /\ ret.value = calculate_complexity_score(OneRun)

\* C17 witness: the complexity score of "aaaAAA111!!!" has been returned
C17_Witness ==
    /\ password = FourRuns
    /\ ret.op = "calculate_complexity_score"
    /\ RepeatRuns(password) = 4
    /\ ret.value = 90

Password123 == << "P", "a", "s", "s", "w", "o", "r", "d", "1", "2", "3" >>

\* C18: for "Password123" (11 characters) length_score is 0.6, variety_score
\* is 0.75 with the special-character class the missing one, and is_valid is
\* false with the special-character rule the only failing rule.
C18_Password123 ==
    password = Password123 =>
        /\ Len(password) = 11
        /\ ret.op = "calculate_length_score" => ret.value = 60
        /\ ret.op = "calculate_variety_score" => ret.value = 75
        /\ ret.op = "is_valid" => ret.value = FALSE
        /\ ret.op = "validate_special_char" => ret.value = FALSE
        /\ ret.op = "get_validation_errors" =>
               ret.value = << RuleMessage.special_char >>
        /\ ret.op = "get_validation_summary" =>
               \A k \in ClassKeys \cup { "length" } :
                   ret.value[k] <=> (k # "special_char")
        /\ ret.op = "get_strength_details" =>
               /\ ret.value.length_score = 60
               /\ ret.value.variety_score = 75
               /\ ~ret.value.is_valid
               /\ ret.value.validation_errors = << RuleMessage.special_char >>

\* C18 witness: the errors of "Password123" have been returned, one entry
C18_Witness ==
    /\ password = Password123
    /\ ret.op = "get_validation_errors"
    /\ Len(ret.value) = 1

\* C19: for the empty string all five validation predicates are false,
\* length_score and variety_score are 0.0, the category is Weak, and the
\* recommendations are non-empty and start with the longer-password suggestion.
C19_EmptyString ==
    password = << >> =>
        /\ ret.op \in { "validate_length", "validate_uppercase", "validate_lowercase",
                        "validate_digit", "validate_special_char" } =>
               ret.value = FALSE
        /\ ret.op = "get_validation_summary" =>
               \A k \in DOMAIN ret.value : ret.value[k] = FALSE
        /\ ret.op = "calculate_length_score" => ret.value = 0
        /\ ret.op = "calculate_variety_score" => ret.value = 0
        /\ ret.op = "get_strength_details" =>
               /\ ret.value.length_score = 0
               /\ ret.value.variety_score = 0
               /\ ret.value.category = "Weak"
        /\ ret.op = "get_strength_recommendations" =>
               /\ ret.value # << >>
               /\ Head(ret.value) = AdviceText.length

\* C19 witness: the recommendations for the empty string have been returned
C19_Witness ==
    /\ password = << >>
    /\ ret.op = "get_strength_recommendations"
    /\ Len(ret.value) = 5

\* C20: a password that passes all five validation rules (minimum length 8)
\* has an overall score of at least 0.70 and is categorized Strong, so Weak
\* and Medium are reported only for passwords that fail validation.
C20_ValidIsStrong ==
    /\ ret.op = "get_strength_details" =>
           /\ ret.value.is_valid =>
                  /\ ret.value.overall_score >= 70
                  /\ ret.value.category = "Strong"
           /\ ret.value.category \in { "Weak", "Medium" } => ~ret.value.is_valid
    /\ (ret.op = "calculate_overall_score" /\ is_valid(password)) =>
           /\ ret.value >= 70
           /\ get_strength_category(ret.value) = "Strong"

\* C20 witness: a valid password with both penalties and the lowest length
\* score: its overall score is exactly 0.70
C20_Witness ==
    /\ ret.op = "get_strength_details"
    /\ ret.value.is_valid
    /\ ret.value.length_score = 30
    /\ ret.value.complexity_score = 70
    /\ ret.value.overall_score = 70
    /\ ret.value.category = "Strong"

\* C21 as stated: whenever get_strength_details reports Strong it reports
\* is_valid true, and no password shorter than 8 characters is Strong.
C21_StrongImpliesValid ==
    ret.op = "get_strength_details" =>
        /\ ret.value.category = "Strong" => ret.value.is_valid
        /\ Len(password) < 8 => ret.value.category # "Strong"

\* C21 amended: Strong means only that the overall score is at least 0.70
\* and does not imply is_valid.  A password shorter than 8 characters
\* (length_score 0.0) is Strong exactly when it has all four character
\* classes and no run of three identical characters (variety and complexity
\* both 1.0, overall exactly 0.70); a password with none of the four classes
\* is never Strong.
C21_StrongNeedNotBeValid ==
    ret.op = "get_strength_details" =>
        LET d == ret.value
            classes == { k \in ClassKeys : get_validation_summary(password)[k] }
        IN  /\ d.category = "Strong" <=> d.overall_score >= 70
            /\ Len(password) < 8 =>
                   /\ d.length_score = 0
                   /\ ~d.is_valid
                   /\ d.category = "Strong" <=>
                          (d.variety_score = 100 /\ d.complexity_score = 100)
                   /\ d.category = "Strong" <=>
                          (classes = ClassKeys /\ ~repeating_chars_pattern(password))
                   /\ d.category = "Strong" => d.overall_score = 70
            /\ d.category = "Strong" => classes # {}

\* C21 witness: a password shorter than 8 characters is reported Strong and
\* not valid
C21_Witness ==
    /\ ret.op = "get_strength_details"
    /\ Len(password) < 8
    /\ ret.value.category = "Strong"
    /\ ~ret.value.is_valid

\* C22 as stated: if the recommendations include the advice against
\* repeating or against sequential characters, the complexity score of the
\* password is below 1.0.
C22_AdvisoryMeansPenalized ==
    (/\ ret.op = "get_strength_recommendations"
     /\ \/ Contains(ret.value, AdviceText.repeating)
        \/ Contains(ret.value, AdviceText.sequential)) =>
        calculate_complexity_score(password) < 100

\* C22 amended: the advice against repeating characters comes with a
\* complexity score of at most 0.9.  The advice against sequential characters
\* alone comes with a score of 0.8 plus the bonuses: below 1.0 unless the
\* password has both letter cases and a digit with a special character, in
\* which case the two 0.1 bonuses make up for the penalty and the score is 1.0.
C22_AdvisoryAndComplexity ==
    ret.op = "get_strength_recommendations" =>
        LET repeating == Contains(ret.value, AdviceText.repeating)
            sequential == Contains(ret.value, AdviceText.sequential)
            cases == validate_uppercase(password) /\ validate_lowercase(password)
            marks == validate_digit(password) /\ validate_special_char(password)
            score == calculate_complexity_score(password)
        IN  /\ repeating => score <= 90
            /\ (sequential /\ ~repeating) =>
                   /\ score = 80 + 10 * Ind(cases) + 10 * Ind(marks)
                   /\ score < 100 <=> ~(cases /\ marks)
            /\ (~sequential /\ ~repeating) => score = 100

\* C22 witness: the recommendations name a sequential run for a password
\* whose complexity score is 1.0
C22_Witness ==
    /\ ret.op = "get_strength_recommendations"
    /\ Contains(ret.value, AdviceText.sequential)
    /\ calculate_complexity_score(password) = 100

Exit == << "e", "x", "i", "t" >>

\* The loop of run_interactive_mode has just ended
LoopEnds == cli.pc # "ended" /\ cli'.pc = "ended"

\* An empty password is never passed to the validator or the strength
\* checker, and is answered by the error message
EmptyNeverAnalysed ==
    /\ << >> \notin cli.analysed
    /\ ret.op # "none" => (password # << >> /\ password \in cli.analysed)
    /\ cli.output = "empty_error" => cli.read = Typed(<< >>)

\* An empty password leads to the continue prompt, not to the end
EmptyGoesOn ==
    (cli.pc = "password_prompt" /\ cli'.read = Typed(<< >>)) =>
        (cli'.pc = "continue_prompt" /\ cli'.output = "empty_error")

C24_StatsOfLastCall ==
    ret.op = "organize_files" =>
        /\ organizer.organization_stats = ret.value
        /\ \A category \in get_all_categories :
               (IF category \in DOMAIN organizer.organization_stats
                THEN organizer.organization_stats[category] ELSE 0)
               = Cardinality({ i \in 1..Len(ret.moves) : ret.moves[i].category = category })
        /\ ret.moves = << >> =>
               get_organization_summary(organizer).text = "No files were organized."
\* The regular files under the directory: at the top level and in the
\* category folders
FileCount(dir) == Cardinality(dir.files) + Cardinality(dir.inside)

\* name is base_N.ext of original for the smallest N >= 1 such that base_N.ext
\* is not among the names in use
IsFirstFreeRenaming(name, original, in_use) ==
    LET base == splitext(original)[1]
        extension == splitext(original)[2]
        renamed(N) == base \o << "_" >> \o Decimal(N) \o extension
    IN  \E N \in 1..(Cardinality(in_use) + 1) :
            /\ name = renamed(N)
            /\ name \notin in_use
            /\ \A smaller \in 1..(N - 1) : renamed(smaller) \in in_use

\* A step of organize_files loses and overwrites nothing
OrganizeKeepsFiles ==
    ret'.op = "organize_files" =>
        /\ fs.inside \subseteq fs'.inside
        /\ fs'.files \subseteq fs.files
        /\ FileCount(fs') = FileCount(fs)
        /\ Cardinality(fs.files \ fs'.files) = Len(ret'.moves)
        /\ \A i \in 1..Len(ret'.moves) :
               LET move == ret'.moves[i]
                   in_use == { entry[2] : entry \in
                                 { e \in fs.inside : e[1] = move.category }
                                 \cup { << ret'.moves[j].category, ret'.moves[j].moved_as >> :
                                          j \in { k \in 1..(i - 1) :
                                                    ret'.moves[k].category = move.category } } }
               IN  /\ move.filename \in fs.files \ fs'.files
                   /\ move.category = CategoryOfName(move.filename)
                   /\ << move.category, move.moved_as >> \in fs'.inside \ fs.inside
                   /\ IF move.filename \notin in_use
                      THEN move.moved_as = move.filename
                      ELSE IsFirstFreeRenaming(move.moved_as, move.filename, in_use)

\* C25: organize_files never overwrites or loses a file: a file whose name is
\* in use in its category folder is moved to base_N.ext for the smallest
\* N >= 1 not in use, the files already in category folders stay, and the
\* number of regular files under the directory is the same before and after
\* the call, whether the moves succeed or fail.
C25_NoFileLostOrOverwritten == [][OrganizeKeepsFiles]_vars

\* C25 witness: a file was moved under the second free name, the first two
\* names being in use
C25_Witness ==
    /\ ret.op = "organize_files"
    /\ \E i \in 1..Len(ret.moves) :
           /\ ret.moves[i].filename = << "a", ".", "j", "p", "g" >>
           /\ ret.moves[i].moved_as = << "a", "_", "2", ".", "j", "p", "g" >>
    /\ << "Images", << "a", ".", "j", "p", "g" >> >> \in fs.inside
    /\ << "Images", << "a", "_", "1", ".", "j", "p", "g" >> >> \in fs.inside

\* A step of dry_run changes neither the directory nor the statistics and
\* lists every file organize_files would move, under the category
\* organize_files would move it to, and no other file
DryRunOnlyLists ==
    ret'.op = "dry_run" =>
        /\ fs' = fs
        /\ organizer'.organization_stats = organizer.organization_stats
        /\ ~ret'.readable => ret'.value = << >>
        /\ ret'.readable =>
               LET would == organize_files(fs, organizer, ret'.skip_hidden, TRUE, {},
                                           ret'.listed, {}).moves
                   listed_under(name) ==
                       { category \in DOMAIN ret'.value :
                           \E i \in 1..Len(ret'.value[category]) :
                               ret'.value[category][i] = name }
               IN  /\ \A name \in fs.files :
                          IF ret'.skip_hidden /\ is_hidden_file(name)
                          THEN listed_under(name) = {}
                          ELSE /\ listed_under(name) = { CategoryOfName(name) }
                               /\ \E i \in 1..Len(would) :
                                      /\ would[i].filename = name
                                      /\ listed_under(name) = { would[i].category }
                   /\ \A category \in DOMAIN ret'.value :
                          /\ category \in get_all_categories
                          /\ \A i, j \in 1..Len(ret'.value[category]) :
                                 ret'.value[category][i] = ret'.value[category][j] => i = j
                          /\ \A i \in 1..Len(ret'.value[category]) :
                                 ret'.value[category][i] \in fs.files

\* C26: dry_run performs no filesystem change and leaves organization_stats
\* unchanged: it creates no folder and moves no file, and it lists each
\* top-level file (hidden files excluded when skip_hidden is true) under
\* exactly one category, the category organize_files would move it to.
C26_DryRunChangesNothing == [][DryRunOnlyLists]_vars

\* C26 witness: after files had been organized, a dry run listed the hidden
\* file that was left at the top level and changed nothing
C26_Witness ==
    /\ ret.op = "dry_run"
    /\ ret.readable /\ ~ret.skip_hidden
    /\ DOMAIN organizer.organization_stats # {}
    /\ "Others" \in DOMAIN ret.value
    /\ \E name \in fs.files : is_hidden_file(name) /\ ret.value["Others"] = << name >>

\* C27: after any sequence of add_product, update_product_quantity and
\* delete_product calls no two rows of the table have the same name, and every
\* row has a non-blank name, a price greater than 0 and a quantity of at
\* least 0.
C27_TableWellFormed ==
    /\ \A one, other \in products.rows : one.name = other.name => one = other
    /\ \A row \in products.rows :
           /\ str_strip(row.name) # << >>
           /\ ~row.price.nan /\ row.price.hundredths > 0
           /\ row.quantity >= 0

\* C27 witness: two products are stored, one of them with an updated quantity
C27_Witness ==
    /\ ret.op = "update_product_quantity" /\ ret.value
    /\ Cardinality(products.rows) = 2
    /\ \E row \in products.rows : row.name = ret.name /\ row.quantity = ret.quantity

InventoryOps == { "add_product", "update_product_quantity", "delete_product" }

\* The rows of the products other than the named one
OtherRows(table, name) == { row \in table.rows : row.name # name }

\* A call that returns False changes no row; a call that returns True changes
\* the named product as asked and no other row; the calls the claim lists
\* return False
InventoryCallEffect ==
    ret'.op \in InventoryOps =>
        LET name == ret'.name
            known == SelectByName(products, name) # {}
        IN  /\ ~ret'.value => products'.rows = products.rows
            /\ ret'.value => OtherRows(products', name) = OtherRows(products, name)
            /\ ret'.op = "add_product" =>
                   /\ ( \/ known
                        \/ str_strip(name) = << >>
                        \/ LessOrEqualZero(ret'.price)
                        \/ ret'.quantity < 0 ) => ~ret'.value
                   /\ ret'.value =>
                          /\ ~known
                          /\ \E row \in products'.rows :
                                 /\ SelectByName(products', name) = { row }
                                 /\ row.price = ret'.price
                                 /\ row.quantity = ret'.quantity
            /\ ret'.op = "update_product_quantity" =>
                   /\ (ret'.quantity < 0 \/ ~known) => ~ret'.value
                   /\ ret'.value =>
                          \E old \in products.rows :
                              /\ SelectByName(products, name) = { old }
                              /\ SelectByName(products', name)
                                     = { [ old EXCEPT !.quantity = ret'.quantity ] }
            /\ ret'.op = "delete_product" =>
                   /\ ~known => ~ret'.value
                   /\ ret'.value => (known /\ SelectByName(products', name) = {})

\* C28: every InventoryManager operation that returns False leaves the table
\* unchanged (add_product for an existing name or invalid data,
\* update_product_quantity for a negative quantity or an unknown name,
\* delete_product for an unknown name), and an operation that returns True
\* changes only the named product and no other row.  Refuted: when commit
\* raises, the operation returns False after its statement has changed the
\* table.
C28_FalseChangesNothing == [][InventoryCallEffect]_vars

DivideOperators == { << "/" >>, << "d", "i", "v", "i", "d", "e" >> }

\* A calculation whose operator is '/' or 'divide' and whose second operand
\* is 0 raises ZeroDivisionError, prints the division-by-zero message, and
\* leaves the session running at its prompt
DivisionByZeroReported ==
    (/\ ret.op = "process_calculation"
     /\ ~ret.done.parsed.none
     /\ ret.done.parsed.operator \in DivideOperators
     /\ IsZero(ret.done.parsed.num2))
        => /\ ret.done.raised = "ZeroDivisionError"
           /\ ret.done.output = "cannot_divide_by_zero"
           /\ app.running /\ app.pc = "input"

\* The running flag changes only from true to false, and only by the
\* command quit, exit or q
RunningClearedOnlyByQuit ==
    app'.running # app.running =>
        /\ app.running /\ ~app'.running
        /\ ret'.op = "handle_command"
        /\ str_strip(str_lower(ret'.event.text)) \in QuitCommands

\* C29: Calculator.calculate raises ZeroDivisionError for operator '/' or
\* 'divide' whenever the second operand is 0, for any first operand;
\* process_calculation turns it into an error message and the running flag
\* stays true; running becomes false only through the quit, exit or q command.
C29_DivisionByZeroKeepsRunning ==
    /\ []DivisionByZeroReported
    /\ [][RunningClearedOnlyByQuit]_vars

\* C29 witness: nan divide -0 was typed and reported as a division by zero
C29_Witness ==
    /\ ret.op = "process_calculation"
    /\ ret.done.parsed.operator = << "d", "i", "v", "i", "d", "e" >>
    /\ ret.done.parsed.num1.kind = "nan"
    /\ ret.event.text = << "n", "a", "n", " ", "d", "i", "v", "i", "d", "e", " ", "-", "0" >>
    /\ ret.done.output = "cannot_divide_by_zero"
    /\ app.running

====
